---- MODULE Spec2Model ----
(***************************************************************************)
(* Cloud-Zombie Exorcist: the FinOps analysis engine                       *)
(* (src/core/finops_analyzer.py) and the batch driver                      *)
(* (src/cloud_zombie_cli.py) as state machines.                            *)
(*                                                                         *)
(* Numbers.  Python floats are modelled by scaled integers, each quantity  *)
(* in a fixed unit, so that every product and quotient the code computes   *)
(* on the enumerated inputs is exact:                                      *)
(*   money            1 unit = 1/Usd dollar  (Usd = 1000)                  *)
(*   CPU fraction     1 unit = 1/CpuScale    (CpuScale = 100)              *)
(*   confidence       1 unit = 1/100                                       *)
(*   sizes, days, bytes, IOPS, credits, hours: whole numbers               *)
(* Rounding error of binary floating point is not modelled.                *)
(***************************************************************************)
EXTENDS Integers, Sequences, FiniteSets, TLC

VARIABLES
    config,         \* FinOpsAnalyzer.config
    heap,           \* the list objects alive: id -> sequence of findings
    findings,       \* FinOpsAnalyzer.findings: the id of a list object
    held,           \* the list the previous analyze call returned (0: none)
    heldValue,      \* the value that list had when it was returned
    lastData,       \* the argument of the latest analyze call
    produced,       \* the findings of the latest analyze call before the sort
    order,          \* the permutation the sort of the latest call applied
    outcome,        \* how the latest analyze call ended
    summary,        \* the result of get_summary since the latest analyze call
    divided,        \* whether that get_summary call evaluated its division
    document,       \* the result of to_json since the latest analyze call
    calls,          \* the number of analyze calls made
    kind,           \* evaluator driver: the resource kind evaluated
    logs,           \* evaluator driver: the records handed to the evaluator
    twin,           \* evaluator driver: the same records in the other naming
    styles,         \* evaluator driver: the namings of logs and of twin
    out,            \* evaluator driver: the evaluator's result for logs
    outTwin,        \* evaluator driver: the evaluator's result for twin
    files,          \* batch run: the data_files argument
    options,        \* batch run: output_format, auto_notify, telegram.enabled
    idx,            \* batch run: the position of the loop in files
    all_findings,   \* batch run: the local list all_findings
    attempted,      \* batch run: the files analyze_file was called on, in order
    reports,        \* batch run: the report files written
    notification,   \* batch run: what became of the notification
    returned,       \* batch run: the summary analyze returned
    error,          \* file driver: the exception analyze_file raised ("": none)
    markdown,       \* record driver: the lines to_markdown returned
    bot,            \* TelegramBot: token, chat_ids, enabled
    call,           \* TelegramBot: the latest send call and its arguments
    requests,       \* TelegramBot: the API requests issued by the latest call
    responses,      \* TelegramBot: the list the latest call returned
    message,        \* TelegramBot: the lines of the digest of the latest call
    pc              \* position of the driver

engineVars == <<config, heap, findings, held, heldValue, lastData, produced,
                order, outcome, summary, divided, document, calls>>
evalVars == <<kind, logs, twin, styles, out, outTwin>>
cliVars == <<files, options, idx, all_findings, attempted, reports,
             notification, returned>>
botVars == <<bot, call, requests, responses, message>>
extVars == <<error, markdown, bot, call, requests, responses, message>>
vars == <<config, heap, findings, held, heldValue, lastData, produced, order,
          outcome, summary, divided, document, calls,
          kind, logs, twin, styles, out, outTwin,
          files, options, idx, all_findings, attempted, reports,
          notification, returned,
          error, markdown, bot, call, requests, responses, message, pc>>

----------------------------------------------------------------------------
(* Units *)

Usd == 1000
CpuScale == 100

(* Values as they come out of a JSON document or a CSV row: numbers,       *)
(* strings, null and lists (of which only the length matters to the code). *)
(* A string that is the decimal text of a number carries that number.      *)
JNum(n) == [t |-> "num", n |-> n, s |-> ""]
JStr(s) == [t |-> "str", n |-> 0, s |-> s]
JNumStr(n, s) == [t |-> "numstr", n |-> n, s |-> s]
JNull == [t |-> "null", n |-> 0, s |-> ""]
JList(n) == [t |-> "list", n |-> n, s |-> ""]

(* Python truthiness of a value *)
Truthy(v) ==
    CASE v.t = "num" -> v.n # 0
      [] v.t \in {"str", "numstr"} -> v.s # ""
      [] v.t = "list" -> v.n > 0
      [] OTHER -> FALSE

(* variant: dict.get(key), None for a missing key *)
GetNoDefault(d, key, default) == IF key \in DOMAIN d THEN d[key] ELSE JNull

(* dict.get(key, default) *)
Get(d, key, default) == IF key \in DOMAIN d THEN d[key] ELSE default

(* variant: a lookup that reads the first name only *)
Get2FirstOnly(d, first, second, default) == Get(d, first, default)

(* dict.get(first, dict.get(second, default)): the dual-name lookup *)
Get2(d, first, second, default) == Get(d, first, Get(d, second, default))

(* str(n) for a natural number *)
Digit == <<"0", "1", "2", "3", "4", "5", "6", "7", "8", "9">>

RECURSIVE Str(_)
Str(n) == IF n < 10 THEN Digit[n + 1] ELSE Str(n \div 10) \o Digit[(n % 10) + 1]

(* float(v) and int(v) of a value: a number and the text of a number pass,  *)
(* any other value raises.                                                 *)
IsNumber(v) == v.t \in {"num", "numstr"}

(* s.split('.') of the instance types the model draws *)
DotParts ==
    [s \in {"m5.xlarge", "c5.2xlarge", "t3.micro", "m5a.large", "unknown"} |->
        CASE s = "m5.xlarge" -> <<"m5", "xlarge">>
          [] s = "c5.2xlarge" -> <<"c5", "2xlarge">>
          [] s = "t3.micro" -> <<"t3", "micro">>
          [] s = "m5a.large" -> <<"m5a", "large">>
          [] OTHER -> <<"unknown">>]

(* variant: startswith(('m5', 'm4', 'c5', 'c4')), the dot not required *)
StartsWithFamilyNoDot(s) == s \in {"m5.xlarge", "c5.2xlarge", "m5a.large"}

(* instance_type.startswith(('m5.', 'm4.', 'c5.', 'c4.')) *)
StartsWithFamily(s) ==
    /\ Len(DotParts[s]) >= 2
    /\ DotParts[s][1] \in {"m5", "m4", "c5", "c4"}

----------------------------------------------------------------------------
(* Class constants of FinOpsAnalyzer *)

EC2_CPU_LOW_THRESHOLD == 10         \* 0.10 in CpuScale units
EC2_NETWORK_LOW_THRESHOLD == 1000
EBS_UNATTACHED_DAYS == 7
SNOWFLAKE_OVERSIZED_THRESHOLD == 30 \* 0.30 in 1/100

(* OptimizationFinding *)
Finding(rt, id, issue, cost, savings, rec, sev, conf, meta) ==
    [resource_type |-> rt, resource_id |-> id, issue |-> issue,
     current_cost_usd |-> cost, potential_savings_usd |-> savings,
     recommendation |-> rec, severity |-> sev, confidence |-> conf,
     metadata |-> meta]

----------------------------------------------------------------------------
(* Division.  a / b raises ZeroDivisionError when b is 0. *)

Max(a, b) == IF a >= b THEN a ELSE b

(* variant: the denominator taken as it is *)
FloorAbsent(x, one) == x

(* max(x, 1), the floor of a denominator; `one` is 1 in the unit of x *)
Floor(x, one) == Max(x, one)

----------------------------------------------------------------------------
(* analyze_ec2_instances *)

(* float()/int() raise on a value that is not a number *)
Ec2Raises(instance) ==
    \/ ~IsNumber(Get2(instance, "AverageCPU", "avg_cpu", JNum(0)))
    \/ ~IsNumber(Get2(instance, "AverageNetworkIn", "avg_network_in", JNum(0)))
    \/ ~IsNumber(Get2(instance, "DaysRunning", "days_running", JNum(0)))
    \/ ~IsNumber(Get2(instance, "HourlyCost", "hourly_cost", JNum(0)))

(* variant: half of the monthly cost *)
ZombieSavingsHalved(monthly_cost) == (monthly_cost * 5) \div 10

(* potential_savings = monthly_cost * 0.8 *)
ZombieSavings(monthly_cost) == (monthly_cost * 8) \div 10

(* variant: 'terminate' from 30 days on *)
ZombieActionFromThirty(days_running) ==
    IF days_running >= 30 THEN "terminate" ELSE "resize"

(* 'terminate' if days_running > 30 else 'resize' *)
ZombieAction(days_running) == IF days_running > 30 THEN "terminate" ELSE "resize"

(* the body of the loop: the findings appended for one instance *)
Ec2Findings(instance) ==
    LET instance_id == Get2(instance, "InstanceId", "instance_id", JStr("unknown")).s
        instance_type == Get2(instance, "InstanceType", "instance_type", JStr("unknown")).s
        avg_cpu == Get2(instance, "AverageCPU", "avg_cpu", JNum(0)).n
        avg_network == Get2(instance, "AverageNetworkIn", "avg_network_in", JNum(0)).n
        days_running == Get2(instance, "DaysRunning", "days_running", JNum(0)).n
        hourly_cost == Get2(instance, "HourlyCost", "hourly_cost", JNum(0)).n
        monthly_cost == hourly_cost * 24 * 30
    IN  IF avg_cpu < EC2_CPU_LOW_THRESHOLD /\ avg_network < EC2_NETWORK_LOW_THRESHOLD
        THEN << Finding("EC2", instance_id,
                    "Zombie instance - extremely low utilization",
                    monthly_cost,
                    ZombieSavings(monthly_cost),
                    "Terminate or downsize " \o instance_type \o " instance",
                    IF monthly_cost > 500 * Usd THEN "critical"
                    ELSE IF monthly_cost > 100 * Usd THEN "high" ELSE "medium",
                    95,
                    [instance_type |-> JStr(instance_type),
                     avg_cpu_percent |-> JNum((avg_cpu * 100) \div CpuScale),
                     days_running |-> JNum(days_running),
                     hourly_cost |-> JNum(hourly_cost),
                     action |-> JStr(ZombieAction(days_running))]) >>
        ELSE IF avg_cpu < 30 /\ StartsWithFamily(instance_type)
        THEN << Finding("EC2", instance_id,
                    "Oversized instance - low CPU for instance class",
                    monthly_cost,
                    (monthly_cost * 5) \div 10,
                    "Right-size " \o instance_type \o " to smaller instance",
                    "medium",
                    85,
                    [instance_type |-> JStr(instance_type),
                     avg_cpu_percent |-> JNum((avg_cpu * 100) \div CpuScale),
                     suggested_action |-> JStr("rightsize"),
                     hourly_cost |-> JNum(hourly_cost)]) >>
        ELSE << >>

RECURSIVE analyze_ec2_instances(_)
analyze_ec2_instances(instances) ==
    IF instances = << >> THEN << >>
    ELSE Ec2Findings(Head(instances)) \o analyze_ec2_instances(Tail(instances))

----------------------------------------------------------------------------
(* analyze_ebs_volumes *)

(* cost_per_gb.get(volume_type, 0.10), in money units per GB-month *)
cost_per_gb(volume_type) ==
    CASE volume_type = "gp3" -> 80
      [] volume_type = "gp2" -> 100
      [] volume_type \in {"io1", "io2"} -> 125
      [] volume_type = "st1" -> 45
      [] volume_type = "sc1" -> 25
      [] OTHER -> 100

(* variant: both conditions required *)
EbsUnattachedTestAnd(volume) ==
    /\ Get2(volume, "State", "state", JStr("unknown")).s = "available"
    /\ Truthy(Get(volume, "Attachments", JList(0)))

(* state == 'available' or volume.get('Attachments', []) *)
EbsUnattachedTest(volume) ==
    \/ Get2(volume, "State", "state", JStr("unknown")).s = "available"
    \/ Truthy(Get(volume, "Attachments", JList(0)))

(* the denominators the evaluator divides by: avg_iops / provisioned_iops, *)
(* evaluated behind provisioned_iops > 0                                   *)
EbsDivisors(volume) ==
    IF /\ Get2(volume, "VolumeType", "volume_type", JStr("gp2")).s \in {"io1", "io2"}
       /\ Get2(volume, "IOPS", "provisioned_iops", JNum(0)).n > 0
    THEN {Get2(volume, "IOPS", "provisioned_iops", JNum(0)).n}
    ELSE {}

(* float()/int() raise on a value that is not a number, a division on 0 *)
EbsRaises(volume) ==
    \/ ~IsNumber(Get2(volume, "Size", "size_gb", JNum(0)))
    \/ /\ EbsUnattachedTest(volume)
       /\ ~IsNumber(Get2(volume, "DaysUnattached", "days_unattached", JNum(0)))
    \/ /\ Get2(volume, "VolumeType", "volume_type", JStr("gp2")).s \in {"io1", "io2"}
       /\ \/ ~IsNumber(Get2(volume, "AverageIOPS", "avg_iops", JNum(0)))
          \/ ~IsNumber(Get2(volume, "IOPS", "provisioned_iops", JNum(0)))
    \/ 0 \in EbsDivisors(volume)

EbsFindings(volume) ==
    LET volume_id == Get2(volume, "VolumeId", "volume_id", JStr("unknown")).s
        size_gb == Get2(volume, "Size", "size_gb", JNum(0)).n
        volume_type == Get2(volume, "VolumeType", "volume_type", JStr("gp2")).s
        monthly_cost == size_gb * cost_per_gb(volume_type)
        days_unattached == Get2(volume, "DaysUnattached", "days_unattached", JNum(0)).n
        avg_iops == Get2(volume, "AverageIOPS", "avg_iops", JNum(0)).n
        provisioned_iops == Get2(volume, "IOPS", "provisioned_iops", JNum(0)).n
        unattached ==
            IF EbsUnattachedTest(volume) /\ days_unattached >= EBS_UNATTACHED_DAYS
            THEN << Finding("EBS", volume_id,
                        "Unattached EBS volume for " \o Str(days_unattached) \o " days",
                        monthly_cost,
                        monthly_cost,
                        "Delete unattached " \o Str(size_gb) \o "GB " \o volume_type \o " volume",
                        IF monthly_cost > 50 * Usd THEN "high" ELSE "medium",
                        98,
                        [size_gb |-> JNum(size_gb),
                         volume_type |-> JStr(volume_type),
                         days_unattached |-> JNum(days_unattached),
                         action |-> JStr("delete")]) >>
            ELSE << >>
        \* avg_iops / provisioned_iops < 0.20, with provisioned_iops > 0
        iops ==
            IF /\ volume_type \in {"io1", "io2"}
               /\ provisioned_iops > 0
               /\ avg_iops * 100 < 20 * provisioned_iops
            THEN << Finding("EBS", volume_id,
                        "Over-provisioned IOPS on io1/io2 volume",
                        monthly_cost,
                        (monthly_cost * 6) \div 10,
                        "Reduce provisioned IOPS from " \o Str(provisioned_iops)
                            \o " to " \o Str((avg_iops * 12) \div 10),
                        "medium",
                        80,
                        [provisioned_iops |-> JNum(provisioned_iops),
                         avg_iops |-> JNum(avg_iops),
                         action |-> JStr("modify_iops")]) >>
            ELSE << >>
    IN  unattached \o iops

RECURSIVE analyze_ebs_volumes(_)
analyze_ebs_volumes(volumes) ==
    IF volumes = << >> THEN << >>
    ELSE EbsFindings(Head(volumes)) \o analyze_ebs_volumes(Tail(volumes))

----------------------------------------------------------------------------
(* analyze_snowflake_warehouses *)

(* the ordered size scale; warehouse_costs doubles along it: 1, 2, 4 ... 128 *)
sizes == <<"X-Small", "Small", "Medium", "Large",
           "X-Large", "2X-Large", "3X-Large", "4X-Large">>

SizeIndex(wh_size) == CHOOSE i \in 1..Len(sizes) : sizes[i] = wh_size

(* variant: the default rate for every size *)
warehouse_costs_flat(wh_size) == 4

(* warehouse_costs.get(wh_size, 4) *)
warehouse_costs(wh_size) ==
    IF \E i \in 1..Len(sizes) : sizes[i] = wh_size
    THEN 2 ^ (SizeIndex(wh_size) - 1)
    ELSE 4

(* sizes[max(0, current_idx - 2)], current_idx = 2 for an unknown size     *)
(* (indices are 1-based here, 0-based in the source)                       *)
SuggestedSize(wh_size) ==
    LET current_idx == IF \E i \in 1..Len(sizes) : sizes[i] = wh_size
                       THEN SizeIndex(wh_size) - 1 ELSE 2
    IN  sizes[Max(0, current_idx - 2) + 1]

(* credit rates are kept in 1/CreditScale credit per hour *)
CreditScale == 1000

(* the denominators the evaluator divides by: max(analysis_period_days, 1), *)
(* max(hours_active, 1) and, behind hours_active > 0, max_credit_rate       *)
WhDivisors(wh) ==
    {Floor(Get(wh, "analysis_period_days", JNum(30)).n, 1),
     Floor(Get2(wh, "hours_active", "active_hours", JNum(0)).n, 1)}
        \cup (IF Get2(wh, "hours_active", "active_hours", JNum(0)).n > 0
              THEN {warehouse_costs(Get2(wh, "size", "warehouse_size", JStr("Medium")).s)}
              ELSE {})

WhRaises(wh) ==
    \/ ~IsNumber(Get2(wh, "credits_used", "total_credits", JNum(0)))
    \/ ~IsNumber(Get2(wh, "query_count", "total_queries", JNum(0)))
    \/ ~IsNumber(Get2(wh, "hours_active", "active_hours", JNum(0)))
    \/ ~IsNumber(Get(wh, "analysis_period_days", JNum(30)))
    \* avg_credit_usage / max_credit_rate, on the value as given
    \/ /\ Get2(wh, "hours_active", "active_hours", JNum(0)).n > 0
       /\ Get(wh, "avg_credit_usage_per_hour", JNum(0)).t # "num"
    \/ 0 \in WhDivisors(wh)

(* variant: only a missing setting counts *)
AutoSuspendUnsetNoneOnly(auto_suspend) == auto_suspend.t = "null"

(* auto_suspend is None or auto_suspend == 0: a text is neither *)
AutoSuspendUnset(auto_suspend) ==
    auto_suspend.t = "null" \/ (auto_suspend.t = "num" /\ auto_suspend.n = 0)

WhFindings(wh) ==
    LET wh_name == Get2(wh, "name", "warehouse_name", JStr("unknown")).s
        wh_size == Get2(wh, "size", "warehouse_size", JStr("Medium")).s
        state == Get2(wh, "state", "status", JStr("RUNNING")).s
        credits_used == Get2(wh, "credits_used", "total_credits", JNum(0)).n
        query_count == Get2(wh, "query_count", "total_queries", JNum(0)).n
        hours_active == Get2(wh, "hours_active", "active_hours", JNum(0)).n
        analysis_period_days == Get(wh, "analysis_period_days", JNum(30)).n
        total_cost == credits_used * 2 * Usd
        monthly_cost == (total_cost \div Floor(analysis_period_days, 1)) * 30
        idle ==
            IF hours_active < 10 /\ query_count < 5 /\ analysis_period_days >= 7
            THEN << Finding("Snowflake", wh_name,
                        "Idle warehouse - minimal query activity",
                        monthly_cost,
                        (monthly_cost * 9) \div 10,
                        "Suspend or drop warehouse " \o wh_name,
                        "high",
                        92,
                        [warehouse_size |-> JStr(wh_size),
                         current_state |-> JStr(state),
                         hours_active |-> JNum(hours_active),
                         query_count |-> JNum(query_count),
                         credits_used |-> JNum(credits_used),
                         action |-> JStr("suspend")]) >>
            ELSE << >>
        \* wh.get('avg_credit_usage_per_hour', credits_used / max(hours_active, 1))
        avg_credit_usage ==
            Get(wh, "avg_credit_usage_per_hour",
                JNum((credits_used * CreditScale) \div Floor(hours_active, 1))).n
        max_credit_rate == warehouse_costs(wh_size)
        \* avg_credit_usage / max_credit_rate < 0.30
        oversized ==
            IF /\ hours_active > 0
               /\ avg_credit_usage * 100
                    < SNOWFLAKE_OVERSIZED_THRESHOLD * max_credit_rate * CreditScale
            THEN << Finding("Snowflake", wh_name,
                        "Oversized warehouse - low credit utilization",
                        monthly_cost,
                        (monthly_cost * 5) \div 10,
                        "Resize " \o wh_name \o " from " \o wh_size
                            \o " to " \o SuggestedSize(wh_size),
                        "medium",
                        78,
                        [current_size |-> JStr(wh_size),
                         suggested_size |-> JStr(SuggestedSize(wh_size)),
                         avg_credit_usage |-> JNum(avg_credit_usage),
                         utilization_percent |->
                             JNum((avg_credit_usage * 100) \div max_credit_rate),
                         action |-> JStr("resize")]) >>
            ELSE << >>
        auto_suspend == Get2(wh, "auto_suspend_minutes", "auto_suspend", JNull)
        no_auto_suspend ==
            IF AutoSuspendUnset(auto_suspend)
            THEN << Finding("Snowflake", wh_name,
                        "No auto-suspend configured - credits wasted",
                        monthly_cost,
                        (monthly_cost * 3) \div 10,
                        "Enable auto-suspend (60 seconds recommended) for " \o wh_name,
                        "medium",
                        95,
                        [auto_suspend_minutes |-> auto_suspend,
                         action |-> JStr("configure_auto_suspend")]) >>
            ELSE << >>
    IN  idle \o oversized \o no_auto_suspend

RECURSIVE analyze_snowflake_warehouses(_)
analyze_snowflake_warehouses(warehouses) ==
    IF warehouses = << >> THEN << >>
    ELSE WhFindings(Head(warehouses))
            \o analyze_snowflake_warehouses(Tail(warehouses))

----------------------------------------------------------------------------
(* analyze_s3_storage *)

(* storage_costs.get(storage_class, 0.023), in 1/RateScale money unit per  *)
(* GB-month                                                                *)
RateScale == 100

storage_costs(storage_class) ==
    CASE storage_class = "STANDARD" -> 2300
      [] storage_class = "STANDARD_IA" -> 1250
      [] storage_class = "GLACIER" -> 400
      [] storage_class = "DEEP_ARCHIVE" -> 99
      [] OTHER -> 2300

S3Raises(bucket) ==
    \/ ~IsNumber(Get2(bucket, "SizeGB", "size_gb", JNum(0)))
    \/ ~IsNumber(Get2(bucket, "DaysSinceLastAccess", "days_since_access", JNum(0)))
    \/ ~IsNumber(Get2(bucket, "IncompleteUploads", "incomplete_uploads", JNum(0)))
    \/ ~IsNumber(Get2(bucket, "IncompleteUploadSizeGB", "incomplete_size_gb", JNum(0)))

(* variant: the cost of the bucket as the current cost of its uploads *)
IncompleteCostOfBucket(monthly_cost, wasted_cost) == monthly_cost

(* current_cost_usd=wasted_cost of the incomplete uploads finding *)
IncompleteCost(monthly_cost, wasted_cost) == wasted_cost

S3Findings(bucket) ==
    LET bucket_name == Get2(bucket, "BucketName", "bucket_name", JStr("unknown")).s
        size_gb == Get2(bucket, "SizeGB", "size_gb", JNum(0)).n
        storage_class == Get2(bucket, "StorageClass", "storage_class", JStr("STANDARD")).s
        monthly_cost == (size_gb * storage_costs(storage_class)) \div RateScale
        days_since_last_access ==
            Get2(bucket, "DaysSinceLastAccess", "days_since_access", JNum(0)).n
        incomplete_uploads ==
            Get2(bucket, "IncompleteUploads", "incomplete_uploads", JNum(0)).n
        incomplete_size_gb ==
            Get2(bucket, "IncompleteUploadSizeGB", "incomplete_size_gb", JNum(0)).n
        wasted_cost == (incomplete_size_gb * storage_costs(storage_class)) \div RateScale
        cold ==
            IF days_since_last_access > 90 /\ storage_class = "STANDARD"
            THEN << Finding("S3", bucket_name,
                        "Cold storage - no access for "
                            \o Str(days_since_last_access) \o " days",
                        monthly_cost,
                        (monthly_cost * 8) \div 10,
                        "Transition " \o bucket_name \o " to Glacier storage class",
                        IF monthly_cost < 100 * Usd THEN "medium" ELSE "high",
                        88,
                        [size_gb |-> JNum(size_gb),
                         current_class |-> JStr(storage_class),
                         days_since_access |-> JNum(days_since_last_access),
                         action |-> JStr("transition_to_glacier")]) >>
            ELSE << >>
        \* {incomplete_size_gb:.1f} of a whole number of GB
        incomplete ==
            IF incomplete_size_gb > 10
            THEN << Finding("S3", bucket_name \o "/incomplete-uploads",
                        Str(incomplete_uploads) \o " incomplete multipart uploads wasting "
                            \o Str(incomplete_size_gb) \o ".0GB",
                        IncompleteCost(monthly_cost, wasted_cost),
                        wasted_cost,
                        "Abort incomplete uploads in " \o bucket_name,
                        "low",
                        95,
                        [incomplete_uploads |-> JNum(incomplete_uploads),
                         wasted_gb |-> JNum(incomplete_size_gb),
                         action |-> JStr("abort_incomplete_uploads")]) >>
            ELSE << >>
    IN  cold \o incomplete

RECURSIVE analyze_s3_storage(_)
analyze_s3_storage(buckets) ==
    IF buckets = << >> THEN << >>
    ELSE S3Findings(Head(buckets)) \o analyze_s3_storage(Tail(buckets))

----------------------------------------------------------------------------
(* Input records.  A record is a mapping from field names to values; it is *)
(* built from an assignment of values to the evaluator's fields and a      *)
(* naming of those fields.                                                 *)

Rename(names, v) ==
    [k \in {names[f] : f \in DOMAIN v} |->
        v[CHOOSE f \in DOMAIN v : names[f] = k]]

Ec2Names(style) ==
    IF style = "cap"
    THEN [id |-> "InstanceId", type |-> "InstanceType", cpu |-> "AverageCPU",
          net |-> "AverageNetworkIn", days |-> "DaysRunning", cost |-> "HourlyCost"]
    ELSE [id |-> "instance_id", type |-> "instance_type", cpu |-> "avg_cpu",
          net |-> "avg_network_in", days |-> "days_running", cost |-> "hourly_cost"]

(* 'Attachments' has one name only *)
EbsNames(style) ==
    IF style = "cap"
    THEN [id |-> "VolumeId", state |-> "State", size |-> "Size",
          type |-> "VolumeType", days |-> "DaysUnattached",
          avg_iops |-> "AverageIOPS", iops |-> "IOPS",
          attachments |-> "Attachments"]
    ELSE [id |-> "volume_id", state |-> "state", size |-> "size_gb",
          type |-> "volume_type", days |-> "days_unattached",
          avg_iops |-> "avg_iops", iops |-> "provisioned_iops",
          attachments |-> "Attachments"]

(* The warehouse evaluator reads two lower-case namings ("snake", then     *)
(* "alias"); 'analysis_period_days' and 'avg_credit_usage_per_hour' have   *)
(* one name only.  "cap" is the capitalized form of the first naming,      *)
(* which the evaluator reads nowhere.                                      *)
WhNames(style) ==
    CASE style = "snake" ->
            [name |-> "name", size |-> "size", state |-> "state",
             credits |-> "credits_used", queries |-> "query_count",
             hours |-> "hours_active", period |-> "analysis_period_days",
             avg |-> "avg_credit_usage_per_hour",
             auto |-> "auto_suspend_minutes"]
      [] style = "alias" ->
            [name |-> "warehouse_name", size |-> "warehouse_size", state |-> "status",
             credits |-> "total_credits", queries |-> "total_queries",
             hours |-> "active_hours", period |-> "analysis_period_days",
             avg |-> "avg_credit_usage_per_hour",
             auto |-> "auto_suspend"]
      [] OTHER ->
            [name |-> "Name", size |-> "Size", state |-> "State",
             credits |-> "CreditsUsed", queries |-> "QueryCount",
             hours |-> "HoursActive", period |-> "AnalysisPeriodDays",
             avg |-> "AvgCreditUsagePerHour",
             auto |-> "AutoSuspendMinutes"]

S3Names(style) ==
    IF style = "cap"
    THEN [name |-> "BucketName", size |-> "SizeGB", class |-> "StorageClass",
          days |-> "DaysSinceLastAccess", uploads |-> "IncompleteUploads",
          upsize |-> "IncompleteUploadSizeGB"]
    ELSE [name |-> "bucket_name", size |-> "size_gb", class |-> "storage_class",
          days |-> "days_since_access", uploads |-> "incomplete_uploads",
          upsize |-> "incomplete_size_gb"]

Names(k, style) ==
    CASE k = "ec2" -> Ec2Names(style)
      [] k = "ebs" -> EbsNames(style)
      [] k = "snowflake" -> WhNames(style)
      [] OTHER -> S3Names(style)

Kinds == {"ec2", "ebs", "snowflake", "s3"}

Nums(S) == {JNum(n) : n \in S}
Strs(S) == {JStr(x) : x \in S}

(* field values the evaluator driver draws from *)
Ec2Values ==
    [id : Strs({"i-1"}),
     type : Strs({"m5.xlarge", "t3.micro", "m5a.large", "unknown"}),
     cpu : Nums({2, 10, 15, 30}),
     net : Nums({500, 1000, 5000}),
     days : Nums({30, 45}),
     cost : Nums({0, 100, 138, 139, 192, 694, 695, 1000})]

EbsBase ==
    [id : Strs({"vol-1"}),
     state : Strs({"available", "in-use"}),
     size : Nums({100, 500, 501}),
     type : Strs({"gp2", "io1", "zz9"}),
     days : Nums({0, 6, 7, 21}),
     avg_iops : Nums({100, 500}),
     iops : Nums({0, 1000})]

EbsValues ==
    EbsBase \cup {b @@ [attachments |-> JList(a)] : b \in EbsBase, a \in {0, 1}}

WhBase ==
    [name : Strs({"WH_1"}),
     size : Strs({"X-Large", "Small", "Huge"}),
     state : Strs({"RUNNING"}),
     credits : Nums({0, 21, 210}),
     queries : Nums({2, 5}),
     hours : Nums({0, 3, 10})]

WhOptions ==
    {[f \in D |-> o[f]] :
        D \in SUBSET {"period", "avg", "auto"},
        o \in [period : Nums({5, 14}), avg : Nums({100, 5000}),
               auto : Nums({0, 10})]}

WhValues == {b @@ o : b \in WhBase, o \in WhOptions}

S3Values ==
    [name : Strs({"bk-1"}),
     size : Nums({5, 200, 5000}),
     class : Strs({"STANDARD", "GLACIER", "ZZ"}),
     days : Nums({90, 120}),
     uploads : Nums({3}),
     upsize : Nums({10, 11})]

Values(k) ==
    CASE k = "ec2" -> Ec2Values
      [] k = "ebs" -> EbsValues
      [] k = "snowflake" -> WhValues
      [] OTHER -> S3Values

(* the pairs of namings the driver compares *)
StylePairs(k) ==
    IF k = "snowflake" THEN {<<"cap", "snake">>, <<"snake", "alias">>}
    ELSE {<<"cap", "snake">>}

(* configurations an engine is constructed with: none, the defaults that   *)
(* _load_config assembles, and other thresholds                            *)
NoConfig == [k \in {} |-> 0]

Configs ==
    {NoConfig,
     [ec2_cpu_threshold |-> 10, ebs_unattached_days |-> 7,
      snowflake_idle_hours |-> 24],
     [ec2_cpu_threshold |-> 20, ebs_unattached_days |-> 3,
      snowflake_idle_hours |-> 24]}

----------------------------------------------------------------------------
(* analyze *)

(* data.get(k): a missing collection and an empty one are both falsy *)
Records(data, k) == IF k \in DOMAIN data THEN data[k] ELSE << >>

EvaluatorOrder == <<"ec2", "ebs", "snowflake", "s3">>

Evaluate(k, records) ==
    CASE k = "ec2" -> analyze_ec2_instances(records)
      [] k = "ebs" -> analyze_ebs_volumes(records)
      [] k = "snowflake" -> analyze_snowflake_warehouses(records)
      [] OTHER -> analyze_s3_storage(records)

(* an evaluator raises when float()/int() raises on one of its records *)
EvaluatorRaises(k, records) ==
    \E i \in 1..Len(records) :
        CASE k = "ec2" -> Ec2Raises(records[i])
          [] k = "ebs" -> EbsRaises(records[i])
          [] k = "snowflake" -> WhRaises(records[i])
          [] OTHER -> S3Raises(records[i])

(* the number of evaluators that complete: 4 when none raises *)
Completed(data) ==
    IF \E j \in 1..4 : EvaluatorRaises(EvaluatorOrder[j], Records(data, EvaluatorOrder[j]))
    THEN (CHOOSE j \in 1..4 :
            /\ EvaluatorRaises(EvaluatorOrder[j], Records(data, EvaluatorOrder[j]))
            /\ \A i \in 1..(j - 1) :
                ~EvaluatorRaises(EvaluatorOrder[i], Records(data, EvaluatorOrder[i]))) - 1
    ELSE 4

(* self.findings after the extend calls of the first n evaluators *)
RECURSIVE Extended(_, _)
Extended(data, n) ==
    IF n = 0 THEN << >>
    ELSE Extended(data, n - 1)
            \o Evaluate(EvaluatorOrder[n], Records(data, EvaluatorOrder[n]))

(* variant: a sort without reverse=True *)
RECURSIVE InsertByKeyAscending(_, _, _)
InsertByKeyAscending(perm, i, key) ==
    IF perm = << >> THEN << i >>
    ELSE IF key[Head(perm)] <= key[i]
         THEN << Head(perm) >> \o InsertByKeyAscending(Tail(perm), i, key)
         ELSE << i >> \o perm

(* variant: a sort that puts an element before the elements of equal key *)
RECURSIVE InsertByKeyUnstable(_, _, _)
InsertByKeyUnstable(perm, i, key) ==
    IF perm = << >> THEN << i >>
    ELSE IF key[Head(perm)] > key[i]
         THEN << Head(perm) >> \o InsertByKeyUnstable(Tail(perm), i, key)
         ELSE << i >> \o perm

(* list.sort(key=lambda x: x.potential_savings_usd, reverse=True), as the  *)
(* permutation it applies: position -> index in the unsorted list.  The    *)
(* sort is stable, also with reverse=True: an element goes behind every    *)
(* element whose key is greater or equal.                                  *)
RECURSIVE InsertByKey(_, _, _)
InsertByKey(perm, i, key) ==
    IF perm = << >> THEN << i >>
    ELSE IF key[Head(perm)] >= key[i]
         THEN << Head(perm) >> \o InsertByKey(Tail(perm), i, key)
         ELSE << i >> \o perm

RECURSIVE SortPerm(_, _)
SortPerm(key, n) ==
    IF n = 0 THEN << >> ELSE InsertByKey(SortPerm(key, n - 1), n, key)

SavingsKey(list) == [i \in 1..Len(list) |-> list[i].potential_savings_usd]

SortOrder(list) == SortPerm(SavingsKey(list), Len(list))

Permute(list, perm) == [i \in 1..Len(list) |-> list[perm[i]]]

----------------------------------------------------------------------------
(* get_summary *)

(* round(): the nearest whole quotient a / b (b > 0), ties to even *)
RoundDiv(a, b) ==
    LET q == a \div b
        r == a % b
    IN  IF 2 * r > b \/ (2 * r = b /\ q % 2 = 1) THEN q + 1 ELSE q

(* round(x, 2) of an amount of money: to whole cents, in money units *)
Round2(x) == RoundDiv(x, Usd \div 100) * (Usd \div 100)

RECURSIVE SumOf(_, _)
SumOf(list, field) ==
    IF list = << >> THEN 0 ELSE Head(list)[field] + SumOf(Tail(list), field)

(* variant: d[k] = 1, the count not carried over *)
IncrementOnce(d, k) ==
    IF \E i \in 1..Len(d) : d[i].k = k THEN d ELSE Append(d, [k |-> k, n |-> 1])

(* d[k] = d.get(k, 0) + 1 on a dict, which keeps its keys in insertion     *)
(* order: a dict is a sequence of key/count entries                        *)
Increment(d, k) ==
    IF \E i \in 1..Len(d) : d[i].k = k
    THEN [i \in 1..Len(d) |-> IF d[i].k = k THEN [k |-> k, n |-> d[i].n + 1] ELSE d[i]]
    ELSE Append(d, [k |-> k, n |-> 1])

RECURSIVE CountBy(_, _)
CountBy(list, field) ==
    IF list = << >> THEN << >>
    ELSE Increment(CountBy(SubSeq(list, 1, Len(list) - 1), field),
                   list[Len(list)][field])

(* datetime.utcnow() at construction, .isoformat() *)
analysis_timestamp == "2024-01-01T00:00:00"

(* variant: the summary without the guard on the empty collection *)
get_summary_unguarded(list) ==
    LET total_savings == SumOf(list, "potential_savings_usd")
        total_current_cost == SumOf(list, "current_cost_usd")
    IN  [total_findings |-> Len(list),
         total_potential_savings_usd |-> Round2(total_savings),
         total_current_cost_usd |-> Round2(total_current_cost),
         savings_percentage |->
             RoundDiv(total_savings * 100 * 10, Floor(total_current_cost, Usd)),
         by_severity |-> CountBy(list, "severity"),
         by_resource_type |-> CountBy(list, "resource_type"),
         analysis_timestamp |-> analysis_timestamp]

(* get_summary; savings_percentage is in 1/10 percent *)
get_summary(list) ==
    IF list = << >>
    THEN [total_findings |-> 0]
    ELSE LET total_savings == SumOf(list, "potential_savings_usd")
             total_current_cost == SumOf(list, "current_cost_usd")
         IN  [total_findings |-> Len(list),
              total_potential_savings_usd |-> Round2(total_savings),
              total_current_cost_usd |-> Round2(total_current_cost),
              savings_percentage |->
                  RoundDiv(total_savings * 100 * 10, Floor(total_current_cost, Usd)),
              by_severity |-> CountBy(list, "severity"),
              by_resource_type |-> CountBy(list, "resource_type"),
              analysis_timestamp |-> analysis_timestamp]

(* whether get_summary evaluates the division of line 416 *)
SummaryDivides(list) == list # << >>

(* the denominator of that division: max(total_current_cost, 1) *)
SummaryDivisors(list) ==
    IF SummaryDivides(list) THEN {Floor(SumOf(list, "current_cost_usd"), Usd)} ELSE {}

SummaryRaises(list) == 0 \in SummaryDivisors(list)

----------------------------------------------------------------------------
(* to_json, and json.loads of its result *)

(* json.dumps of a value: a number becomes its decimal text (sign and      *)
(* digits, in the unit of the value), a string is put between quotes, None *)
(* becomes null.  The text is a sequence of tokens.                        *)
RECURSIVE Digits(_)
Digits(n) ==
    IF n < 10 THEN << Digit[n + 1] >>
    ELSE Append(Digits(n \div 10), Digit[(n % 10) + 1])

(* variant: None written as the text "None" *)
DumpsNoneAsText(v) ==
    CASE v.t = "num" ->
            IF v.n < 0 THEN << "-" >> \o Digits(0 - v.n) ELSE Digits(v.n)
      [] v.t \in {"str", "numstr"} -> << "\"", v.s, "\"" >>
      [] OTHER -> << "\"", "None", "\"" >>

(* json.dumps of a field value *)
Dumps(v) ==
    CASE v.t = "num" ->
            IF v.n < 0 THEN << "-" >> \o Digits(0 - v.n) ELSE Digits(v.n)
      [] v.t \in {"str", "numstr"} -> << "\"", v.s, "\"" >>
      [] OTHER -> << "null" >>

DigitValue(c) == (CHOOSE i \in 1..10 : Digit[i] = c) - 1

RECURSIVE ParseDigits(_)
ParseDigits(text) ==
    IF text = << >> THEN 0
    ELSE ParseDigits(SubSeq(text, 1, Len(text) - 1)) * 10
            + DigitValue(text[Len(text)])

(* json.loads of the text of one value *)
Loads(text) ==
    CASE text[1] = "\"" -> JStr(text[2])
      [] text[1] = "null" -> JNull
      [] text[1] = "-" -> JNum(0 - ParseDigits(Tail(text)))
      [] OTHER -> JNum(ParseDigits(text))

NumberFields == {"current_cost_usd", "potential_savings_usd", "confidence"}

(* dataclasses.asdict: the nine fields, every value as a JSON-able value   *)
asdict(f) ==
    [k \in DOMAIN f |->
        IF k = "metadata" THEN f.metadata
        ELSE IF k \in NumberFields THEN JNum(f[k]) ELSE JStr(f[k])]

(* the text of one finding object: the text of each member *)
DumpsFinding(d) ==
    [k \in DOMAIN d |->
        IF k = "metadata" THEN [m \in DOMAIN d.metadata |-> Dumps(d.metadata[m])]
        ELSE Dumps(d[k])]

to_json(list) ==
    [summary |-> get_summary(list),
     findings |-> [i \in 1..Len(list) |-> DumpsFinding(asdict(list[i]))],
     generated_at |-> "utcnow"]

(* json.loads(text)['findings'][i], read back as a finding record *)
LoadsFinding(o) ==
    [k \in DOMAIN o |->
        IF k = "metadata" THEN [m \in DOMAIN o.metadata |-> Loads(o.metadata[m])]
        ELSE IF k \in NumberFields THEN Loads(o[k]).n ELSE Loads(o[k]).s]

ParsedFindings(doc) == [i \in 1..Len(doc.findings) |-> LoadsFinding(doc.findings[i])]

----------------------------------------------------------------------------
(* The engine as a state machine *)

MaxCalls == 2
MaxRecords == 2

(* the records analyze is called with: the samples of the module's example *)
(* run and of the scenarios and an instance that no rule flags, chosen so  *)
(* that equal savings occur across evaluators (the zombie instance and the *)
(* volume, 72 dollars each), across records (a record given twice) and     *)
(* across the rules of one record (the warehouse, which used no credits)   *)
Ec2Pool ==
    {Rename(Ec2Names("cap"),
        [id |-> JStr("i-zombie123"), type |-> JStr("m5.xlarge"), cpu |-> JNum(2),
         net |-> JNum(500), days |-> JNum(45), cost |-> JNum(125)]),
     Rename(Ec2Names("snake"),
        [id |-> JStr("i-busy456"), type |-> JStr("t3.micro"), cpu |-> JNum(60),
         net |-> JNum(5000), days |-> JNum(30), cost |-> JNum(250)])}

EbsPool ==
    {Rename(EbsNames("cap"),
        [id |-> JStr("vol-orphan789"), state |-> JStr("available"),
         size |-> JNum(720), type |-> JStr("gp2"), days |-> JNum(21)])}

WhPool ==
    {Rename(WhNames("snake"),
        [name |-> JStr("WH_IDLE"), size |-> JStr("X-Large"), state |-> JStr("RUNNING"),
         credits |-> JNum(0), queries |-> JNum(2), hours |-> JNum(3),
         period |-> JNum(14)])}

S3Pool ==
    {Rename(S3Names("cap"),
        [name |-> JStr("bk-cold"), size |-> JNum(200), class |-> JStr("STANDARD"),
         days |-> JNum(120)])}

SeqsUpTo(S, n) == UNION {[1..m -> S] : m \in 0..n}

DataSet ==
    {d \in [ec2 : SeqsUpTo(Ec2Pool, MaxRecords), ebs : SeqsUpTo(EbsPool, MaxRecords),
            snowflake : SeqsUpTo(WhPool, MaxRecords), s3 : SeqsUpTo(S3Pool, MaxRecords)] :
        Len(d.ec2) + Len(d.ebs) + Len(d.snowflake) + Len(d.s3) <= MaxRecords}

EmptyData == [ec2 |-> << >>, ebs |-> << >>, snowflake |-> << >>, s3 |-> << >>]

(* variant: the list emptied in place, self.findings.clear() *)
NewListInPlace(current, fresh) == current

(* self.findings = []: a new list object *)
NewList(current, fresh) == fresh

(* __init__ *)
EngineInit(cfg) ==
    /\ config = cfg
    /\ heap = [i \in {1} |-> << >>]
    /\ findings = 1
    /\ held = 0
    /\ heldValue = << >>
    /\ lastData = EmptyData
    /\ produced = << >>
    /\ order = << >>
    /\ outcome = "none"
    /\ summary = << >>
    /\ divided = FALSE
    /\ document = << >>
    /\ calls = 0

CliIdle ==
    /\ files = << >>
    /\ options = << >>
    /\ idx = 0
    /\ all_findings = << >>
    /\ attempted = << >>
    /\ reports = {}
    /\ notification = "none"
    /\ returned = << >>

DriverIdle ==
    /\ kind = "none"
    /\ logs = << >>
    /\ twin = << >>
    /\ styles = << >>
    /\ out = << >>
    /\ outTwin = << >>

ExtIdle ==
    /\ error = ""
    /\ markdown = << >>
    /\ bot = << >>
    /\ call = << >>
    /\ requests = << >>
    /\ responses = << >>
    /\ message = << >>

(* analyze(data): the list is replaced, extended by each evaluator in turn *)
(* and sorted in place; an evaluator that raises leaves the list as far as *)
(* it was extended.  The caller keeps the list the previous call returned. *)
AnalyzeCall(data) ==
    LET n == Completed(data)
        target == NewList(findings, calls + 2)
        keep == IF outcome = "returned" THEN findings ELSE 0
    IN  /\ lastData' = data
        /\ produced' = Extended(data, n)
        /\ order' = IF n = 4 THEN SortOrder(produced')
                    ELSE [i \in 1..Len(produced') |-> i]
        /\ outcome' = IF n = 4 THEN "returned" ELSE "raised"
        /\ held' = keep
        /\ heldValue' = IF keep = 0 THEN << >> ELSE heap[keep]
        /\ findings' = target
        /\ heap' = [i \in ({keep} \ {0}) \cup {target} |->
                        IF i = target THEN Permute(produced', order') ELSE heap[i]]
        /\ summary' = << >>
        /\ divided' = FALSE
        /\ document' = << >>
        /\ calls' = calls + 1
        /\ UNCHANGED config

Analyze ==
    /\ pc = "engine"
    /\ calls < MaxCalls
    /\ \E data \in DataSet : AnalyzeCall(data)
    /\ UNCHANGED <<extVars, evalVars, cliVars, pc>>

GetSummary ==
    /\ pc = "engine"
    /\ summary' = get_summary(heap[findings])
    /\ divided' = SummaryDivides(heap[findings])
    /\ UNCHANGED <<extVars, config, heap, findings, held, heldValue, lastData, produced,
                   order, outcome, document, calls, evalVars, cliVars, pc>>

ToJson ==
    /\ pc = "engine"
    /\ document' = to_json(heap[findings])
    /\ UNCHANGED <<extVars, config, heap, findings, held, heldValue, lastData, produced,
                   order, outcome, summary, divided, calls, evalVars, cliVars, pc>>

Init ==
    /\ EngineInit(NoConfig)
    /\ DriverIdle
    /\ CliIdle
    /\ ExtIdle
    /\ pc = "engine"

Next == Analyze \/ GetSummary \/ ToJson

Spec == Init /\ [][Next]_vars

----------------------------------------------------------------------------
(* The evaluators on one record, in two namings of the same values *)

EvalInit ==
    /\ \E cfg \in Configs : EngineInit(cfg)
    /\ kind \in Kinds
    /\ \E v \in Values(kind) : \E sp \in StylePairs(kind) :
        /\ styles = sp
        /\ logs = << Rename(Names(kind, sp[1]), v) >>
        /\ twin = << Rename(Names(kind, sp[2]), v) >>
    /\ out = << >>
    /\ outTwin = << >>
    /\ CliIdle
    /\ ExtIdle
    /\ pc = "start"

EvalStep(k) ==
    /\ pc = "start"
    /\ kind = k
    /\ out' = Evaluate(k, logs)
    /\ outTwin' = Evaluate(k, twin)
    /\ pc' = "done"
    /\ UNCHANGED <<extVars, engineVars, kind, logs, twin, styles, cliVars>>

EvalEc2 == EvalStep("ec2")

EvalEbs == EvalStep("ebs")

EvalSnowflake == EvalStep("snowflake")

EvalS3 == EvalStep("s3")

EvalNext == EvalEc2 \/ EvalEbs \/ EvalSnowflake \/ EvalS3

SpecEval == EvalInit /\ [][EvalNext]_vars

----------------------------------------------------------------------------
(* Properties of the evaluators (SpecEval) *)

(* the value given to field f of a record written in the naming `style` *)
Given(rec, style, f) == rec[Names(kind, style)[f]]

ZombieIssue == "Zombie instance - extremely low utilization"

(* C1 for one record and the evaluator's result for it *)
ZombieRule(rec, style, result) ==
    (Given(rec, style, "cpu").n < 10 /\ Given(rec, style, "net").n < 1000)
        => /\ Len(result) = 1
           /\ result[1].issue = ZombieIssue
           /\ result[1].current_cost_usd = Given(rec, style, "cost").n * 24 * 30
           /\ 10 * result[1].potential_savings_usd
                = 8 * Given(rec, style, "cost").n * 24 * 30

(* C1: an instance record with average CPU below 0.10 and average inbound  *)
(* network below 1000 gets exactly one finding, the zombie finding, with   *)
(* current cost hourly_cost * 24 * 30 and potential savings 0.8 times that *)
C1_ZombieFinding ==
    (pc = "done" /\ kind = "ec2")
        => /\ ZombieRule(logs[1], styles[1], out)
           /\ ZombieRule(twin[1], styles[2], outTwin)

C1_Witness ==
    /\ pc = "done"
    /\ kind = "ec2"
    /\ Given(logs[1], styles[1], "cpu").n < 10
    /\ Given(logs[1], styles[1], "net").n < 1000
    /\ Given(logs[1], styles[1], "cost").n > 0
    /\ Len(out) = 1
    /\ out[1].potential_savings_usd > 0

(* the per-GB rates as the claim lists them, in money units *)
ClaimedRate(volume_type) ==
    CASE volume_type = "gp3" -> 80
      [] volume_type = "gp2" -> 100
      [] volume_type = "io1" -> 125
      [] volume_type = "io2" -> 125
      [] volume_type = "st1" -> 45
      [] volume_type = "sc1" -> 25
      [] OTHER -> 100

UnattachedIssue(days) == "Unattached EBS volume for " \o Str(days) \o " days"

UnattachedCount(result, days) ==
    Cardinality({i \in 1..Len(result) : result[i].issue = UnattachedIssue(days)})

(* C2 for one record and the evaluator's result for it *)
UnattachedRule(rec, style, result) ==
    (Given(rec, style, "state").s = "available" /\ Given(rec, style, "days").n >= 7)
        => /\ UnattachedCount(result, Given(rec, style, "days").n) = 1
           /\ \A i \in 1..Len(result) :
                result[i].issue = UnattachedIssue(Given(rec, style, "days").n)
                    => /\ result[i].potential_savings_usd = result[i].current_cost_usd
                       /\ result[i].current_cost_usd
                            = Given(rec, style, "size").n
                                * ClaimedRate(Given(rec, style, "type").s)

(* C2: a volume record with state 'available' and days_unattached >= 7     *)
(* gets exactly one 'Unattached EBS volume' finding, whose potential       *)
(* savings equal its current cost, size times the per-GB rate of its type  *)
C2_UnattachedFinding ==
    (pc = "done" /\ kind = "ebs")
        => /\ UnattachedRule(logs[1], styles[1], out)
           /\ UnattachedRule(twin[1], styles[2], outTwin)

C2_Witness ==
    /\ pc = "done"
    /\ kind = "ebs"
    /\ Given(logs[1], styles[1], "state").s = "available"
    /\ Given(logs[1], styles[1], "days").n >= 7
    /\ Given(logs[1], styles[1], "type").s = "io1"
    /\ Len(out) = 2
    /\ out[1].potential_savings_usd = 125 * Given(logs[1], styles[1], "size").n

ConfiguredCpuThreshold == Get(config, "ec2_cpu_threshold", 10)

ConfiguredUnattachedDays == Get(config, "ebs_unattached_days", 7)

(* C8: with a configuration giving ec2_cpu_threshold = t and               *)
(* ebs_unattached_days = d, an instance is flagged as zombie exactly when  *)
(* its CPU is below t and its network below 1000, and an available volume  *)
(* is flagged as unattached exactly when days_unattached >= d              *)
C8_ThresholdsConfigurable ==
    /\ (pc = "done" /\ kind = "ec2")
        => ((\E i \in 1..Len(out) : out[i].issue = ZombieIssue)
                <=> /\ Given(logs[1], styles[1], "cpu").n < ConfiguredCpuThreshold
                    /\ Given(logs[1], styles[1], "net").n < 1000)
    /\ (pc = "done" /\ kind = "ebs" /\ Given(logs[1], styles[1], "state").s = "available")
        => (UnattachedCount(out, Given(logs[1], styles[1], "days").n) = 1
                <=> Given(logs[1], styles[1], "days").n >= ConfiguredUnattachedDays)

(* the value given to field f, or the default when the record lacks it *)
GivenOr(rec, style, f, default) ==
    IF Names(kind, style)[f] \in DOMAIN rec THEN rec[Names(kind, style)[f]] ELSE default

(* the maximum credit rate of a size class as the scale lists it: 1 for    *)
(* X-Small, doubling up to 128 for 4X-Large, and 4 for any other size      *)
ClaimedMaxRate(size) ==
    CASE size = "X-Small" -> 1
      [] size = "Small" -> 2
      [] size = "Medium" -> 4
      [] size = "Large" -> 8
      [] size = "X-Large" -> 16
      [] size = "2X-Large" -> 32
      [] size = "3X-Large" -> 64
      [] size = "4X-Large" -> 128
      [] OTHER -> 4

(* monthly_cost of a warehouse: credits_used * $2 over the period, on 30 days *)
ClaimedWhCost(rec, style) ==
    ((GivenOr(rec, style, "credits", JNum(0)).n * 2 * Usd)
        \div Max(GivenOr(rec, style, "period", JNum(30)).n, 1)) * 30

(* the average credit usage per hour, as given or credits_used over        *)
(* max(hours_active, 1), in 1/CreditScale credit                           *)
ClaimedUsage(rec, style) ==
    GivenOr(rec, style, "avg",
            JNum((GivenOr(rec, style, "credits", JNum(0)).n * CreditScale)
                    \div Max(GivenOr(rec, style, "hours", JNum(0)).n, 1))).n

(* usage / maximum rate of the size class < 0.30 *)
LowUtilization(rec, style) ==
    ClaimedUsage(rec, style) * 100
        < 30 * ClaimedMaxRate(GivenOr(rec, style, "size", JStr("Medium")).s) * CreditScale

OversizedWhIssue == "Oversized warehouse - low credit utilization"

IssueCount(result, issue) ==
    Cardinality({i \in 1..Len(result) : result[i].issue = issue})

(* the findings with this issue have savings of tenths/10 of the monthly cost *)
SavingsShare(result, issue, rec, style, tenths) ==
    \A i \in 1..Len(result) :
        result[i].issue = issue
            => /\ result[i].current_cost_usd = ClaimedWhCost(rec, style)
               /\ result[i].potential_savings_usd
                    = (ClaimedWhCost(rec, style) * tenths) \div 10

(* C21 as claimed, for one record and the evaluator's result for it *)
OversizedRule(rec, style, result) ==
    LowUtilization(rec, style)
        => /\ IssueCount(result, OversizedWhIssue) = 1
           /\ SavingsShare(result, OversizedWhIssue, rec, style, 5)

(* C21 as claimed: every warehouse record whose average credit usage per   *)
(* hour over the maximum rate of its size is below 0.30 gets exactly one   *)
(* 'Oversized warehouse' finding with savings of half the monthly cost,    *)
(* whatever hours_active, query_count and auto-suspend are                 *)
C21_OversizedIndependent ==
    (pc = "done" /\ kind = "snowflake" /\ styles = <<"snake", "alias">>)
        => /\ OversizedRule(logs[1], styles[1], out)
           /\ OversizedRule(twin[1], styles[2], outTwin)

(* C21 amended, for one record and the evaluator's result for it *)
OversizedActiveRule(rec, style, result) ==
    /\ IssueCount(result, OversizedWhIssue)
            = (IF /\ GivenOr(rec, style, "hours", JNum(0)).n > 0
                  /\ LowUtilization(rec, style)
               THEN 1 ELSE 0)
    /\ SavingsShare(result, OversizedWhIssue, rec, style, 5)

(* C21 amended: a warehouse record gets exactly one 'Oversized warehouse'  *)
(* finding, with savings of half the monthly cost, when hours_active > 0   *)
(* and its usage over the maximum rate of its size is below 0.30, whatever *)
(* query_count and auto-suspend are; with hours_active = 0 it gets none    *)
C21_OversizedWhenActive ==
    (pc = "done" /\ kind = "snowflake" /\ styles = <<"snake", "alias">>)
        => /\ OversizedActiveRule(logs[1], styles[1], out)
           /\ OversizedActiveRule(twin[1], styles[2], outTwin)

C21_Witness ==
    /\ pc = "done"
    /\ kind = "snowflake"
    /\ styles = <<"snake", "alias">>
    /\ GivenOr(logs[1], styles[1], "hours", JNum(0)).n = 10
    /\ GivenOr(logs[1], styles[1], "queries", JNum(0)).n = 5
    /\ GivenOr(logs[1], styles[1], "auto", JNull) = JNum(10)
    /\ GivenOr(logs[1], styles[1], "credits", JNum(0)).n = 21
    /\ "avg_credit_usage_per_hour" \notin DOMAIN logs[1]
    /\ LowUtilization(logs[1], styles[1])
    /\ Len(out) = 1
    /\ out[1].issue = OversizedWhIssue
    /\ out[1].potential_savings_usd > 0

IdleWhIssue == "Idle warehouse - minimal query activity"

NoAutoSuspendIssue == "No auto-suspend configured - credits wasted"

(* the place of a warehouse finding in the order idle, oversized,          *)
(* no-auto-suspend                                                         *)
WhRank(issue) ==
    CASE issue = IdleWhIssue -> 1
      [] issue = OversizedWhIssue -> 2
      [] issue = NoAutoSuspendIssue -> 3
      [] OTHER -> 0

(* C22 for one record and the evaluator's result for it *)
ThreeFindingsRule(rec, style, result) ==
    /\ Len(result) <= 3
    /\ \A i \in 1..Len(result) : WhRank(result[i].issue) \in 1..3
    /\ \A i, j \in 1..Len(result) :
          i < j => WhRank(result[i].issue) < WhRank(result[j].issue)
    /\ IssueCount(result, NoAutoSuspendIssue)
            = (IF \/ Names(kind, style)["auto"] \notin DOMAIN rec
                  \/ rec[Names(kind, style)["auto"]] = JNum(0)
               THEN 1 ELSE 0)
    /\ SavingsShare(result, NoAutoSuspendIssue, rec, style, 3)

(* C22: a warehouse record gets zero to three findings, at most one of     *)
(* each of idle, oversized and no-auto-suspend, in this order; the         *)
(* no-auto-suspend finding is there exactly when the auto-suspend setting  *)
(* is absent under both names or 0, with savings of 0.3 of the monthly     *)
(* cost                                                                    *)
C22_UpToThreeFindings ==
    (pc = "done" /\ kind = "snowflake" /\ styles = <<"snake", "alias">>)
        => /\ ThreeFindingsRule(logs[1], styles[1], out)
           /\ ThreeFindingsRule(twin[1], styles[2], outTwin)

C22_Witness ==
    /\ pc = "done"
    /\ kind = "snowflake"
    /\ styles = <<"snake", "alias">>
    /\ GivenOr(twin[1], styles[2], "auto", JNull) = JNum(0)
    /\ Len(outTwin) = 3
    /\ outTwin[1].issue = IdleWhIssue
    /\ outTwin[2].issue = OversizedWhIssue
    /\ outTwin[3].issue = NoAutoSuspendIssue
    /\ outTwin[3].potential_savings_usd > 0

OversizedEc2Issue == "Oversized instance - low CPU for instance class"

(* the family of an instance type: the text before its first dot *)
ClaimedFamily(type) ==
    CASE type = "m5.xlarge" -> "m5"
      [] type = "c5.2xlarge" -> "c5"
      [] type = "t3.micro" -> "t3"
      [] type = "m5a.large" -> "m5a"
      [] OTHER -> type

ZombieCondition(rec, style) ==
    Given(rec, style, "cpu").n < 10 /\ Given(rec, style, "net").n < 1000

(* C23 for one record and the evaluator's result for it *)
OversizedEc2Rule(rec, style, result) ==
    /\ Len(result) <= 1
    /\ IssueCount(result, OversizedEc2Issue)
            = (IF /\ ~ZombieCondition(rec, style)
                  /\ Given(rec, style, "cpu").n < 30
                  /\ ClaimedFamily(Given(rec, style, "type").s) \in {"m5", "m4", "c5", "c4"}
               THEN 1 ELSE 0)
    /\ \A i \in 1..Len(result) :
          result[i].issue = OversizedEc2Issue
            => /\ result[i].current_cost_usd = Given(rec, style, "cost").n * 24 * 30
               /\ 10 * result[i].potential_savings_usd
                    = 5 * Given(rec, style, "cost").n * 24 * 30
               /\ result[i].severity = "medium"
               /\ result[i].confidence = 85

(* C23: an instance record gets at most one finding; it gets the           *)
(* 'Oversized instance' finding (half the monthly cost, medium, 0.85)      *)
(* exactly when it is no zombie, its CPU is below 0.30 and its type is of  *)
(* family m5, m4, c5 or c4                                                 *)
C23_OversizedInstance ==
    (pc = "done" /\ kind = "ec2")
        => /\ OversizedEc2Rule(logs[1], styles[1], out)
           /\ OversizedEc2Rule(twin[1], styles[2], outTwin)

C23_Witness ==
    /\ pc = "done"
    /\ kind = "ec2"
    /\ Given(logs[1], styles[1], "cpu").n = 15
    /\ Given(logs[1], styles[1], "type").s = "m5.xlarge"
    /\ Given(logs[1], styles[1], "cost").n > 0
    /\ Len(out) = 1
    /\ out[1].issue = OversizedEc2Issue
    /\ out[1].potential_savings_usd > 0

(* C24 for one record and the evaluator's result for it *)
ZombieSeverityRule(rec, style, result) ==
    \A i \in 1..Len(result) :
        result[i].issue = ZombieIssue
            => LET monthly_cost == Given(rec, style, "cost").n * 24 * 30
               IN  /\ result[i].severity = "critical" <=> monthly_cost > 500 * Usd
                   /\ result[i].severity = "high"
                        <=> (100 * Usd < monthly_cost /\ monthly_cost <= 500 * Usd)
                   /\ result[i].severity = "medium" <=> monthly_cost <= 100 * Usd
                   /\ result[i].metadata.action = JStr("terminate")
                        <=> Given(rec, style, "days").n > 30
                   /\ result[i].metadata.action = JStr("resize")
                        <=> Given(rec, style, "days").n <= 30

(* C24: the severity of a zombie finding is critical for a monthly cost    *)
(* (hourly_cost * 24 * 30) above 500, high above 100 up to 500, medium up  *)
(* to 100; its action is 'terminate' for days_running > 30, else 'resize'  *)
C24_ZombieSeverityAction ==
    (pc = "done" /\ kind = "ec2")
        => /\ ZombieSeverityRule(logs[1], styles[1], out)
           /\ ZombieSeverityRule(twin[1], styles[2], outTwin)

C24_Witness ==
    /\ pc = "done"
    /\ kind = "ec2"
    /\ Len(out) = 1
    /\ out[1].issue = ZombieIssue
    /\ out[1].severity = "high"
    /\ Given(logs[1], styles[1], "cost").n = 694
    /\ Given(logs[1], styles[1], "days").n = 30
    /\ out[1].metadata.action = JStr("resize")

(* C26 for one record and the evaluator's result for it *)
OnlyUnattachedRule(rec, style, result) ==
    (\E i \in 1..Len(result) :
        result[i].issue = UnattachedIssue(Given(rec, style, "days").n))
        => /\ Given(rec, style, "state").s = "available"
           /\ ~Truthy(GivenOr(rec, style, "attachments", JList(0)))

(* C26: an 'Unattached EBS volume' finding is emitted only for a volume    *)
(* whose state is 'available' and whose Attachments value is empty or      *)
(* absent, whatever its days_unattached                                    *)
C26_UnattachedOnlyWhenUnattached ==
    (pc = "done" /\ kind = "ebs")
        => /\ OnlyUnattachedRule(logs[1], styles[1], out)
           /\ OnlyUnattachedRule(twin[1], styles[2], outTwin)

(* a finding is well-formed: a severity of the scale, a confidence between *)
(* 0 and 1 (in 1/100), a cost that is not negative and savings between 0   *)
(* and the cost                                                            *)
WellFormed(f) ==
    /\ f.severity \in {"low", "medium", "high", "critical"}
    /\ f.confidence \in 0..100
    /\ f.current_cost_usd >= 0
    /\ f.potential_savings_usd >= 0
    /\ f.potential_savings_usd <= f.current_cost_usd

WellFormedResult(result) ==
    /\ \A i \in 1..Len(result) : WellFormed(result[i])
    /\ result # << >>
        => get_summary(result).total_potential_savings_usd
                <= get_summary(result).total_current_cost_usd

(* C29: every finding an evaluator produces from a record whose numbers    *)
(* are not negative is well-formed, and so the total savings of a summary  *)
(* of them do not exceed its total cost                                    *)
C29_FindingsWellFormed ==
    pc = "done" => (WellFormedResult(out) /\ WellFormedResult(outTwin))

C29_Witness ==
    /\ pc = "done"
    /\ kind = "s3"
    /\ Len(out) = 2
    /\ out[1].potential_savings_usd > 0
    /\ out[1].potential_savings_usd < out[1].current_cost_usd
    /\ out[2].severity = "low"
    /\ out[2].current_cost_usd > 0
    /\ out[2].current_cost_usd < out[1].current_cost_usd
    /\ out[2].potential_savings_usd = out[2].current_cost_usd
    /\ WellFormedResult(out)

----------------------------------------------------------------------------
(* Properties of the engine (Spec) *)

Current == heap[findings]

(* C3: the list analyze returns, the engine's findings afterwards, is      *)
(* non-increasing in potential_savings_usd                                 *)
C3_SortedBySavings ==
    outcome = "returned"
        => \A i \in 1..(Len(Current) - 1) :
            Current[i].potential_savings_usd >= Current[i + 1].potential_savings_usd

C3_Witness ==
    /\ outcome = "returned"
    /\ Len(Current) >= 3
    /\ order # [i \in 1..Len(order) |-> i]
    /\ Current[1].potential_savings_usd > Current[Len(Current)].potential_savings_usd

(* the findings in production order: evaluator by evaluator, and within an *)
(* evaluator record by record                                              *)
InProductionOrder(data) ==
    analyze_ec2_instances(data.ec2) \o analyze_ebs_volumes(data.ebs)
        \o analyze_snowflake_warehouses(data.snowflake) \o analyze_s3_storage(data.s3)

IsPermutation(perm, n) ==
    /\ Len(perm) = n
    /\ \A k \in 1..n : \E i \in 1..n : perm[i] = k

(* C4: the sort is stable: the returned list is a rearrangement of the     *)
(* findings in production order (EC2, EBS, Snowflake, S3; input order and  *)
(* rule order within an evaluator) in which findings of equal              *)
(* potential_savings_usd keep their production order                       *)
C4_StableOnTies ==
    outcome = "returned"
        => /\ produced = InProductionOrder(lastData)
           /\ IsPermutation(order, Len(produced))
           /\ Current = Permute(produced, order)
           /\ \A i, j \in 1..Len(order) :
                (/\ i < j
                 /\ Current[i].potential_savings_usd = Current[j].potential_savings_usd)
                    => order[i] < order[j]

C4_Witness ==
    /\ outcome = "returned"
    /\ order # [i \in 1..Len(order) |-> i]
    /\ \E i \in 1..(Len(Current) - 1) :
        /\ Current[i].issue = "Idle warehouse - minimal query activity"
        /\ Current[i + 1].issue = "Oversized warehouse - low credit utilization"
        /\ Current[i].potential_savings_usd = Current[i + 1].potential_savings_usd

(* C5: get_summary on an empty collection, before any analyze call or      *)
(* after one that produced no findings, returns exactly {total_findings:   *)
(* 0} and evaluates no division                                            *)
C5_EmptySummary ==
    (DOMAIN summary # {} /\ Current = << >>)
        => /\ DOMAIN summary = {"total_findings"}
           /\ summary.total_findings = 0
           /\ ~divided

C5_Witness ==
    /\ DOMAIN summary # {}
    /\ Current = << >>
    /\ calls > 0
    /\ Len(lastData.ec2) > 0

FindingFields ==
    {"resource_type", "resource_id", "issue", "current_cost_usd",
     "potential_savings_usd", "recommendation", "severity", "confidence",
     "metadata"}

(* C6: the findings array of the document to_json returns, parsed back,    *)
(* equals the engine's findings: the same records in the same order, all   *)
(* nine fields, metadata included                                          *)
C6_JsonRoundTrip ==
    DOMAIN document # {}
        => /\ Len(document.findings) = Len(Current)
           /\ \A i \in 1..Len(Current) :
                /\ DOMAIN ParsedFindings(document)[i] = FindingFields
                /\ \A k \in FindingFields :
                    ParsedFindings(document)[i][k] = Current[i][k]

C6_Witness ==
    /\ DOMAIN document # {}
    /\ Len(Current) >= 2
    /\ \E i \in 1..Len(Current) :
        /\ "auto_suspend_minutes" \in DOMAIN Current[i].metadata
        /\ Current[i].metadata.auto_suspend_minutes = JNull
        /\ ParsedFindings(document)[i] = Current[i]

(* C9: analyze replaces the engine's state: the collection holds exactly   *)
(* the findings of the latest call's data, the summary and the document    *)
(* are those of that collection, and the list an earlier call returned     *)
(* still has the value it was returned with                                *)
C9_AnalyzeReplacesState ==
    /\ outcome = "returned"
        => /\ Len(Current) = Len(InProductionOrder(lastData))
           /\ IsPermutation(order, Len(Current))
           /\ Current = Permute(InProductionOrder(lastData), order)
    /\ DOMAIN summary # {} => summary.total_findings = Len(Current)
    /\ DOMAIN document # {} => Len(document.findings) = Len(Current)
    /\ held # 0 => heap[held] = heldValue

C9_Witness ==
    /\ calls >= 2
    /\ held # 0
    /\ heldValue # << >>
    /\ heap[held] = heldValue
    /\ Len(Current) > 0
    /\ Len(Current) < Len(heldValue)
    /\ DOMAIN summary # {}

----------------------------------------------------------------------------
(* analyze_file and CloudZombieExorcist.analyze: a batch run over files *)

(* A file: whether it exists, its suffix, the hint words its lower-cased   *)
(* name contains, whether its content parses, and the parsed content: a    *)
(* JSON object (the mapping d), any other JSON value or the CSV rows (the  *)
(* list l).                                                                *)
File(exists, suffix, hints, parses, isdict, d, l) ==
    [exists |-> exists, suffix |-> suffix, hints |-> hints, parses |-> parses,
     isdict |-> isdict, d |-> d, l |-> l]

(* variant: the collections read under their first key only *)
load_json_logs_first_key(f) ==
    IF f.isdict
    THEN [ec2 |-> Get(f.d, "ec2_instances", << >>),
          ebs |-> Get(f.d, "ebs_volumes", << >>),
          snowflake |-> Get(f.d, "snowflake_warehouses", << >>),
          s3 |-> Get(f.d, "s3_buckets", << >>)]
    ELSE [ec2 |-> f.l, ebs |-> << >>, snowflake |-> << >>, s3 |-> << >>]

(* load_json_logs, on the parsed content *)
load_json_logs(f) ==
    IF f.isdict
    THEN [ec2 |-> Get2(f.d, "ec2_instances", "EC2", << >>),
          ebs |-> Get2(f.d, "ebs_volumes", "EBS", << >>),
          snowflake |-> Get2(f.d, "snowflake_warehouses", "snowflake", << >>),
          s3 |-> Get2(f.d, "s3_buckets", "S3", << >>)]
    ELSE [ec2 |-> f.l, ebs |-> << >>, snowflake |-> << >>, s3 |-> << >>]

(* variant: the bucket hints tested before the volume hints *)
CsvKindBucketFirst(hints) ==
    IF "ec2" \in hints THEN "ec2"
    ELSE IF "s3" \in hints \/ "bucket" \in hints THEN "s3"
    ELSE IF "ebs" \in hints \/ "volume" \in hints THEN "ebs"
    ELSE IF "snowflake" \in hints \/ "warehouse" \in hints THEN "snowflake"
    ELSE "ec2"

(* the resource kind a CSV file name stands for *)
CsvKind(hints) ==
    IF "ec2" \in hints THEN "ec2"
    ELSE IF "ebs" \in hints \/ "volume" \in hints THEN "ebs"
    ELSE IF "snowflake" \in hints \/ "warehouse" \in hints THEN "snowflake"
    ELSE IF "s3" \in hints \/ "bucket" \in hints THEN "s3"
    ELSE "ec2"

(* the data analyze_file hands to analyze *)
FileData(f) ==
    IF f.suffix = ".json" THEN load_json_logs(f)
    ELSE [k \in Kinds |-> IF k = CsvKind(f.hints) THEN f.l ELSE << >>]

(* variant: any other suffix read as CSV *)
FileUnsupportedNever(f) == FALSE

(* analyze_file raises before it calls analyze: unsupported suffix, or     *)
(* content that json.load / csv.DictReader cannot read                     *)
FileUnsupported(f) == f.suffix \notin {".json", ".csv"}

FileUnreadable(f) == ~FileUnsupported(f) /\ ~f.parses

MaxFiles == 3

NoRecords == [k \in {} |-> << >>]

FMissing == File(FALSE, ".json", {}, FALSE, FALSE, NoRecords, << >>)

FNotes == File(TRUE, ".txt", {}, TRUE, FALSE, NoRecords, << >>)

FBroken == File(TRUE, ".json", {}, FALSE, FALSE, NoRecords, << >>)

FAws ==
    File(TRUE, ".json", {}, TRUE, TRUE,
         [EC2 |-> << CHOOSE r \in Ec2Pool : "InstanceId" \in DOMAIN r >>,
          EBS |-> << CHOOSE r \in EbsPool : TRUE >>],
         << >>)

(* its instances evaluate, a volume's Size is not a number *)
FPartial ==
    File(TRUE, ".json", {}, TRUE, TRUE,
         [ec2_instances |-> << CHOOSE r \in Ec2Pool : "InstanceId" \in DOMAIN r >>,
          ebs_volumes |-> << [VolumeId |-> JStr("vol-bad"), Size |-> JStr("abc")] >>],
         << >>)

FCsv ==
    File(TRUE, ".csv", {"ebs", "volume"}, TRUE, FALSE, NoRecords,
         << [VolumeId |-> JStr("vol-csv"), State |-> JStr("available"),
             Size |-> JNumStr(300, "300"), VolumeType |-> JStr("gp2"),
             DaysUnattached |-> JNumStr(10, "10")] >>)

FilePool == {FMissing, FNotes, FBroken, FAws, FPartial, FCsv}

(* the configuration _load_config assembles without a file or environment *)
DefaultAnalyzerConfig ==
    [ec2_cpu_threshold |-> 10, ebs_unattached_days |-> 7,
     snowflake_idle_hours |-> 24]

Options == [output_format : {"json", "markdown", "all"},
            auto_notify : BOOLEAN, enabled : BOOLEAN]

CliInit ==
    /\ EngineInit(DefaultAnalyzerConfig)
    /\ DriverIdle
    /\ ExtIdle
    /\ files \in SeqsUpTo(FilePool, MaxFiles)
    /\ options \in Options
    /\ idx = 1
    /\ all_findings = << >>
    /\ attempted = << >>
    /\ reports = {}
    /\ notification = "none"
    /\ returned = << >>
    /\ pc = "loop"

(* variant: the findings collected whether or not analyze_file returned *)
CollectAlways(all, ok, list) == all \o list

(* all_findings.extend(findings), reached only when analyze_file returned *)
Collect(all, ok, list) == IF ok THEN all \o list ELSE all

(* if not Path(filepath).exists(): continue *)
CliSkipMissing ==
    /\ pc = "loop"
    /\ idx <= Len(files)
    /\ ~files[idx].exists
    /\ idx' = idx + 1
    /\ UNCHANGED <<extVars, engineVars, evalVars, files, options, all_findings, attempted,
                   reports, notification, returned, pc>>

(* analyze_file raises before analyze is called; the exception is logged *)
CliFileRejected ==
    /\ pc = "loop"
    /\ idx <= Len(files)
    /\ files[idx].exists
    /\ FileUnsupported(files[idx]) \/ FileUnreadable(files[idx])
    /\ idx' = idx + 1
    /\ attempted' = Append(attempted, idx)
    /\ all_findings' = Collect(all_findings, FALSE, << >>)
    /\ UNCHANGED <<extVars, engineVars, evalVars, files, options, reports, notification,
                   returned, pc>>

(* analyze_file calls analyze, which returns or raises in an evaluator *)
CliAnalyzeFile ==
    /\ pc = "loop"
    /\ idx <= Len(files)
    /\ files[idx].exists
    /\ ~FileUnsupported(files[idx])
    /\ ~FileUnreadable(files[idx])
    /\ AnalyzeCall(FileData(files[idx]))
    /\ idx' = idx + 1
    /\ attempted' = Append(attempted, idx)
    /\ all_findings' = Collect(all_findings, outcome' = "returned", heap'[findings'])
    /\ UNCHANGED <<extVars, evalVars, files, options, reports, notification, returned, pc>>

(* after the loop: all_findings.sort, get_summary, the report files *)
CliReport ==
    /\ pc = "loop"
    /\ idx > Len(files)
    /\ all_findings' = Permute(all_findings, SortOrder(all_findings))
    /\ summary' = get_summary(heap[findings])
    /\ divided' = SummaryDivides(heap[findings])
    /\ document' = IF options.output_format \in {"json", "all"}
                   THEN to_json(heap[findings]) ELSE document
    /\ reports' = {r \in {"json", "markdown"} : options.output_format \in {r, "all"}}
    /\ pc' = "notify"
    /\ UNCHANGED <<extVars, config, heap, findings, held, heldValue, lastData, produced,
                   order, outcome, calls, evalVars, files, options, idx, attempted,
                   notification, returned>>

(* variant: an exception of the notification leaves the call, which then  *)
(* returns nothing                                                         *)
AfterNotifyPropagates(n, s) == IF n = "raised" THEN << >> ELSE s

(* except Exception: the error is logged; return summary follows the try   *)
AfterNotify(n, s) == s

(* the notification, inside try / except Exception, and return summary *)
CliNotify ==
    /\ pc = "notify"
    /\ IF options.auto_notify /\ options.enabled
       THEN notification' \in {"sent", "not delivered", "raised"}
       ELSE notification' = "skipped"
    /\ returned' = AfterNotify(notification', summary)
    /\ pc' = "done"
    /\ UNCHANGED <<extVars, engineVars, evalVars, files, options, idx, all_findings,
                   attempted, reports>>

CliNext ==
    CliSkipMissing \/ CliFileRejected \/ CliAnalyzeFile \/ CliReport \/ CliNotify

SpecCli == CliInit /\ [][CliNext]_vars

----------------------------------------------------------------------------
(* Properties of the batch run (SpecCli) *)

(* the file is analyzed to the end: it exists, is read, no evaluator raises *)
Succeeds(f) ==
    /\ f.exists
    /\ ~FileUnsupported(f)
    /\ ~FileUnreadable(f)
    /\ \A k \in Kinds : ~EvaluatorRaises(k, FileData(f)[k])

(* what analyze returns for the file *)
FileFindings(f) ==
    Permute(InProductionOrder(FileData(f)), SortOrder(InProductionOrder(FileData(f))))

(* the findings of the first n files that are analyzed to the end *)
RECURSIVE Accumulated(_, _)
Accumulated(fs, n) ==
    IF n = 0 THEN << >>
    ELSE Accumulated(fs, n - 1)
            \o (IF Succeeds(fs[n]) THEN FileFindings(fs[n]) ELSE << >>)

(* the existing files among the first n, in list order *)
RECURSIVE Existing(_, _)
Existing(fs, n) ==
    IF n = 0 THEN << >>
    ELSE Existing(fs, n - 1) \o (IF fs[n].exists THEN << n >> ELSE << >>)

C25_SummaryCoversBatch ==
    pc = "done"
        => /\ returned.total_findings = Len(all_findings)
           /\ all_findings # << >>
                => /\ returned.total_potential_savings_usd
                        = Round2(SumOf(all_findings, "potential_savings_usd"))
                   /\ returned.total_current_cost_usd
                        = Round2(SumOf(all_findings, "current_cost_usd"))

(* the report files the output format asks for *)
RequestedReports == {r \in {"json", "markdown"} : options.output_format \in {r, "all"}}

(* C16: the report files are written before the notification is           *)
(* attempted, and whether the notification is skipped, sent, not delivered *)
(* or raises, the call returns the summary                                 *)
C16_NotificationFailureHarmless ==
    /\ pc = "loop" => (reports = {} /\ notification = "none")
    /\ pc = "notify" => (reports = RequestedReports /\ notification = "none")
    /\ notification # "none" => (pc = "done" /\ reports = RequestedReports)
    /\ pc = "done"
        => /\ notification \in {"skipped", "sent", "not delivered", "raised"}
           /\ "total_findings" \in DOMAIN returned
           /\ returned = summary
           /\ returned = get_summary(Current)

C16_Witness ==
    /\ pc = "done"
    /\ notification = "raised"
    /\ options.output_format = "all"
    /\ reports = {"json", "markdown"}
    /\ returned.total_findings >= 1
    /\ returned = summary

----------------------------------------------------------------------------
(* analyze_file on one file, on a fresh engine or after an analyze call *)

(* the two keys load_json_logs reads a kind's collection under *)
CollectionKeys(k) ==
    CASE k = "ec2" -> <<"ec2_instances", "EC2">>
      [] k = "ebs" -> <<"ebs_volumes", "EBS">>
      [] k = "snowflake" -> <<"snowflake_warehouses", "snowflake">>
      [] OTHER -> <<"s3_buckets", "S3">>

(* one sample record of a kind *)
SampleOf(k) ==
    CASE k = "ec2" -> CHOOSE r \in Ec2Pool : "InstanceId" \in DOMAIN r
      [] k = "ebs" -> CHOOSE r \in EbsPool : TRUE
      [] k = "snowflake" -> CHOOSE r \in WhPool : TRUE
      [] OTHER -> CHOOSE r \in S3Pool : TRUE

(* JSON objects: each kind's collection absent, under its first key or     *)
(* under its second key                                                    *)
JsonObjects ==
    {[key \in {CollectionKeys(k)[c[k]] : k \in {x \in Kinds : c[x] # 0}} |->
        << SampleOf(CHOOSE k \in Kinds : c[k] # 0 /\ CollectionKeys(k)[c[k]] = key) >>] :
        c \in [Kinds -> 0..2]}

(* an object with a collection under both of its keys: the first is read *)
FBothKeys ==
    File(TRUE, ".json", {}, TRUE, TRUE,
         [ebs_volumes |-> << SampleOf("ebs") >>, EBS |-> << >>,
          S3 |-> << SampleOf("s3") >>],
         << >>)

(* a JSON document that is a list: its elements are instance records *)
FList == File(TRUE, ".json", {}, TRUE, FALSE, NoRecords, << SampleOf("ec2") >>)

HintWords == {"ec2", "ebs", "volume", "snowflake", "warehouse", "s3", "bucket"}

(* a row of a CSV file: every value is text *)
CsvRow ==
    [VolumeId |-> JStr("vol-csv"), State |-> JStr("available"),
     Size |-> JNumStr(300, "300"), VolumeType |-> JStr("gp2"),
     DaysUnattached |-> JNumStr(10, "10")]

Suffixes == {".txt", ".xml", "", ".JSON", ".yaml"}

DriverFiles ==
    {File(TRUE, ".json", {}, TRUE, TRUE, d, << >>) : d \in JsonObjects}
        \cup {File(TRUE, ".csv", h, TRUE, FALSE, NoRecords, rows) :
                h \in SUBSET HintWords, rows \in {<< >>, << CsvRow >>}}
        \cup {File(TRUE, x, h, TRUE, FALSE, NoRecords, << CsvRow >>) :
                x \in Suffixes, h \in {{}, {"ec2"}}}
        \cup {FBothKeys, FList, FBroken}

(* the data of the analyze call made before analyze_file *)
PriorData ==
    [ec2 |-> << SampleOf("ec2") >>, ebs |-> << >>,
     snowflake |-> << SampleOf("snowflake") >>, s3 |-> << >>]

FileInit ==
    /\ EngineInit(NoConfig)
    /\ DriverIdle
    /\ ExtIdle
    /\ files \in {<< f >> : f \in DriverFiles}
    /\ options = << >>
    /\ idx = 1
    /\ all_findings = << >>
    /\ attempted = << >>
    /\ reports = {}
    /\ notification = "none"
    /\ returned = << >>
    /\ pc = "file"

(* an analyze call before the file is analyzed *)
FilePrior ==
    /\ pc = "file"
    /\ calls = 0
    /\ AnalyzeCall(PriorData)
    /\ UNCHANGED <<extVars, evalVars, cliVars, pc>>

(* analyze_file(filepath): raise ValueError for the suffix, or load the    *)
(* file (which may raise) and call analyze                                 *)
AnalyzeFile ==
    /\ pc = "file"
    /\ pc' = "done"
    /\ IF FileUnsupported(files[1])
       THEN /\ error' = "Unsupported file format: " \o files[1].suffix
            /\ UNCHANGED engineVars
       ELSE IF FileUnreadable(files[1])
       THEN /\ error' = "cannot load"
            /\ UNCHANGED engineVars
       ELSE /\ AnalyzeCall(FileData(files[1]))
            /\ error' = IF outcome' = "raised" THEN "evaluator" ELSE ""
    /\ UNCHANGED <<markdown, botVars, evalVars, cliVars>>

FileNext == FilePrior \/ AnalyzeFile

SpecFile == FileInit /\ [][FileNext]_vars

----------------------------------------------------------------------------
(* Properties of analyze_file (SpecFile) *)

(* C11: analyze_file on a path whose suffix is neither .json nor .csv      *)
(* raises 'Unsupported file format', makes no analyze call and so runs no  *)
(* evaluator, and leaves the engine's collection as it was                 *)
C11_UnsupportedFormat ==
    [][(/\ pc = "file"
        /\ pc' = "done"
        /\ files[1].suffix \notin {".json", ".csv"})
          => /\ error' = "Unsupported file format: " \o files[1].suffix
             /\ calls' = calls
             /\ lastData' = lastData
             /\ produced' = produced
             /\ findings' = findings
             /\ heap' = heap]_vars

C11_Witness ==
    /\ pc = "done"
    /\ files[1].suffix = ".txt"
    /\ error = "Unsupported file format: .txt"
    /\ calls = 1
    /\ Len(Current) = 4

(* the kind the claim gives for a lower-cased file name *)
ClaimedCsvKind(hints) ==
    CASE "ec2" \in hints -> "ec2"
      [] "ec2" \notin hints /\ hints \cap {"ebs", "volume"} # {} -> "ebs"
      [] hints \cap {"ec2", "ebs", "volume"} = {}
            /\ hints \cap {"snowflake", "warehouse"} # {} -> "snowflake"
      [] hints \cap {"ec2", "ebs", "volume", "snowflake", "warehouse"} = {}
            /\ hints \cap {"s3", "bucket"} # {} -> "s3"
      [] OTHER -> "ec2"

(* C12: for a .csv file all rows go to one resource kind, chosen from the  *)
(* lower-cased file name: ec2; else ebs or volume; else snowflake or       *)
(* warehouse; else s3 or bucket; else the instances.  The other three      *)
(* kinds receive no records                                                *)
C12_CsvKindFromName ==
    (pc = "done" /\ files[1].suffix = ".csv")
        => \A k \in Kinds :
            lastData[k] = IF k = ClaimedCsvKind(files[1].hints)
                          THEN files[1].l ELSE << >>

C12_Witness ==
    /\ pc = "done"
    /\ files[1].suffix = ".csv"
    /\ files[1].hints = {"volume", "warehouse", "s3"}
    /\ lastData.ebs = << CsvRow >>
    /\ lastData.snowflake = << >>
    /\ Len(Current) = 1
    /\ Current[1].resource_id = "vol-csv"

(* the collection a JSON object carries for a kind, under either key *)
Carried(d, k) ==
    IF CollectionKeys(k)[1] \in DOMAIN d THEN d[CollectionKeys(k)[1]]
    ELSE IF CollectionKeys(k)[2] \in DOMAIN d THEN d[CollectionKeys(k)[2]]
    ELSE << >>

TypeOfKind(k) ==
    CASE k = "ec2" -> "EC2"
      [] k = "ebs" -> "EBS"
      [] k = "snowflake" -> "Snowflake"
      [] OTHER -> "S3"

(* C13: for a JSON object carrying any subset of the four collections,     *)
(* under either key of each, analyze_file hands analyze exactly the        *)
(* collections present and returns the findings analyze returns for them;  *)
(* an absent kind adds no finding and raises nothing                       *)
C13_JsonSubset ==
    (pc = "done" /\ files[1].suffix = ".json" /\ files[1].parses /\ files[1].isdict)
        => LET given == [k \in Kinds |-> Carried(files[1].d, k)]
           IN  /\ error = ""
               /\ outcome = "returned"
               /\ lastData = given
               /\ Current = Permute(InProductionOrder(given),
                                    SortOrder(InProductionOrder(given)))
               /\ \A i \in 1..Len(Current) :
                    \E k \in Kinds :
                        /\ Current[i].resource_type = TypeOfKind(k)
                        /\ given[k] # << >>

C13_Witness ==
    /\ pc = "done"
    /\ files[1].suffix = ".json"
    /\ DOMAIN files[1].d = {"EC2", "s3_buckets"}
    /\ calls = 2
    /\ error = ""
    /\ Len(Current) = 2
    /\ Current[1].resource_type = "EC2"
    /\ Current[2].resource_type = "S3"

----------------------------------------------------------------------------
(* to_markdown.  The text is a sequence of lines, a line a sequence of     *)
(* tokens; "\n".join(md) puts each element of md on a line of its own.     *)

TwoDigits(n) == IF n < 10 THEN "0" \o Str(n) ELSE Str(n)

ThreeDigits(n) == IF n < 100 THEN "0" \o TwoDigits(n) ELSE Str(n)

(* {n:,}: thousands separated by commas *)
RECURSIVE Commas(_)
Commas(n) ==
    IF n < 1000 THEN Str(n) ELSE Commas(n \div 1000) \o "," \o ThreeDigits(n % 1000)

(* {x:,.2f} of an amount of money *)
Money(x) ==
    LET cents == RoundDiv(x, Usd \div 100)
    IN  Commas(cents \div 100) \o "." \o TwoDigits(cents % 100)

(* str() of a float with one decimal, given in tenths *)
Tenths(p) == Str(p \div 10) \o "." \o Str(p % 10)

(* {...}.get(severity, white): the symbol of a severity *)
SeverityEmoji(severity) ==
    CASE severity = "critical" -> "(red)"
      [] severity = "high" -> "(orange)"
      [] severity = "medium" -> "(yellow)"
      [] severity = "low" -> "(green)"
      [] OTHER -> "(white)"

(* severity.title() of the severities the model draws *)
Title(severity) ==
    CASE severity = "critical" -> "Critical"
      [] severity = "high" -> "High"
      [] severity = "medium" -> "Medium"
      [] severity = "low" -> "Low"
      [] severity = "info" -> "Info"
      [] severity = "urgent" -> "Urgent"
      [] OTHER -> severity

(* the lines of the 'By Severity' block: summary['by_severity'].items(),   *)
(* the dict in its insertion order                                         *)
SeverityLines(by_severity) ==
    [i \in 1..Len(by_severity) |->
        <<"- ", SeverityEmoji(by_severity[i].k), " **", Title(by_severity[i].k),
          ":** ", Str(by_severity[i].n)>>]

(* the six lines of the section of finding number i *)
SectionLines(i, f) ==
    << <<"### ", Str(i), ". ", SeverityEmoji(f.severity), " ", f.resource_type,
         ": ", f.resource_id, "\n">>,
       <<"- **Issue:** ", f.issue>>,
       <<"- **Current Cost:** $", Money(f.current_cost_usd), "/month">>,
       <<"- **Potential Savings:** $", Money(f.potential_savings_usd), "/month">>,
       <<"- **Confidence:** ", Str(f.confidence), "%">>,
       <<"- **Recommendation:** ", f.recommendation, "\n">> >>

RECURSIVE Sections(_, _)
Sections(list, n) ==
    IF n = 0 THEN << >> ELSE Sections(list, n - 1) \o SectionLines(n, list[n])

to_markdown(list) ==
    LET s == get_summary(list)
    IN  << <<"# Cloud-Zombie Exorcist - Optimization Report\n">>,
           <<"*Generated: ", analysis_timestamp, "*\n">>,
           <<"## Summary\n">>,
           <<"- **Total Findings:** ", Str(s.total_findings)>>,
           <<"- **Current Monthly Cost:** $",
             Money(Get(s, "total_current_cost_usd", 0))>>,
           <<"- **Potential Savings:** $",
             Money(Get(s, "total_potential_savings_usd", 0))>>,
           <<"- **Savings Percentage:** ",
             IF "savings_percentage" \in DOMAIN s
             THEN Tenths(s.savings_percentage) ELSE "0", "%\n">> >>
        \o (IF Get(s, "by_severity", << >>) # << >>
            THEN << <<"### By Severity\n">> >> \o SeverityLines(s.by_severity)
            ELSE << >>)
        \o << <<"\n## Detailed Findings\n">> >>
        \o Sections(list, Len(list))

----------------------------------------------------------------------------
(* One record through analyze, get_summary and to_markdown.  The record    *)
(* lacks any subset of its fields, or has numbers at the edges of the      *)
(* rules.                                                                  *)

Restrict(v, D) == [f \in D |-> v[f]]

(* a record of each kind that the rules flag *)
BaseValues(k) ==
    CASE k = "ec2" ->
            [id |-> JStr("i-1"), type |-> JStr("m5.xlarge"), cpu |-> JNum(2),
             net |-> JNum(500), days |-> JNum(45), cost |-> JNum(125)]
      [] k = "ebs" ->
            [id |-> JStr("vol-1"), state |-> JStr("available"), size |-> JNum(100),
             type |-> JStr("io1"), days |-> JNum(21), avg_iops |-> JNum(100),
             iops |-> JNum(1000), attachments |-> JList(1)]
      [] k = "snowflake" ->
            [name |-> JStr("WH_1"), size |-> JStr("X-Large"), state |-> JStr("RUNNING"),
             credits |-> JNum(21), queries |-> JNum(2), hours |-> JNum(3),
             period |-> JNum(14), avg |-> JNum(100), auto |-> JNum(0)]
      [] OTHER ->
            [name |-> JStr("bk-1"), size |-> JNum(5), class |-> JStr("STANDARD"),
             days |-> JNum(120), uploads |-> JNum(3), upsize |-> JNum(11)]

(* numbers at the edges: nothing active, no period, no provisioned IOPS,   *)
(* a size that is not on the scale, no cost                                *)
EdgeValues(k) ==
    CASE k = "ec2" ->
            [id : Strs({"i-1"}), type : Strs({"m5.xlarge"}), cpu : Nums({0, 2}),
             net : Nums({0}), days : Nums({0, 45}), cost : Nums({0})]
      [] k = "ebs" ->
            [id : Strs({"vol-1"}), state : Strs({"available"}), size : Nums({0, 100}),
             type : Strs({"io1"}), days : Nums({21}), avg_iops : Nums({0, 100}),
             iops : Nums({0, 1000})]
      [] k = "snowflake" ->
            [name : Strs({"WH_1"}), size : Strs({"X-Large", "Huge"}),
             state : Strs({"RUNNING"}), credits : Nums({0, 2}), queries : Nums({2}),
             hours : Nums({0, 3}), period : Nums({0 - 1, 0, 14})]
      [] OTHER ->
            [name : Strs({"bk-1"}), size : Nums({0, 5}), class : Strs({"STANDARD"}),
             days : Nums({120}), uploads : Nums({0}), upsize : Nums({0, 11})]

(* the two namings an evaluator reads *)
Accepted(k) == IF k = "snowflake" THEN <<"snake", "alias">> ELSE <<"cap", "snake">>

RecordInit ==
    /\ EngineInit(NoConfig)
    /\ CliIdle
    /\ ExtIdle
    /\ kind \in Kinds
    /\ styles \in {<< Accepted(kind)[1] >>, << Accepted(kind)[2] >>}
    /\ \E v \in {Restrict(BaseValues(kind), D) : D \in SUBSET DOMAIN BaseValues(kind)}
                    \cup EdgeValues(kind) :
        logs = << Rename(Names(kind, styles[1]), v) >>
    /\ twin = << >>
    /\ out = << >>
    /\ outTwin = << >>
    /\ pc = "record"

(* analyze({kind: [record]}) *)
RecordAnalyze ==
    /\ pc = "record"
    /\ calls = 0
    /\ AnalyzeCall([k \in Kinds |-> IF k = kind THEN logs ELSE << >>])
    /\ UNCHANGED <<extVars, evalVars, cliVars, pc>>

(* get_summary() *)
RecordSummary ==
    /\ pc = "record"
    /\ calls = 1
    /\ IF SummaryRaises(heap[findings])
       THEN /\ error' = "ZeroDivisionError"
            /\ UNCHANGED summary
       ELSE /\ summary' = get_summary(heap[findings])
            /\ UNCHANGED error
    /\ divided' = SummaryDivides(heap[findings])
    /\ UNCHANGED <<config, heap, findings, held, heldValue, lastData, produced,
                   order, outcome, document, calls, markdown, botVars, evalVars,
                   cliVars, pc>>

(* to_markdown(), which calls get_summary *)
RecordMarkdown ==
    /\ pc = "record"
    /\ calls = 1
    /\ IF SummaryRaises(heap[findings])
       THEN /\ error' = "ZeroDivisionError"
            /\ UNCHANGED markdown
       ELSE /\ markdown' = to_markdown(heap[findings])
            /\ UNCHANGED error
    /\ UNCHANGED <<engineVars, botVars, evalVars, cliVars, pc>>

RecordNext == RecordAnalyze \/ RecordSummary \/ RecordMarkdown

SpecRecord == RecordInit /\ [][RecordNext]_vars

----------------------------------------------------------------------------
(* TelegramBot.  A token or chat id that is None or '' is "".  A request   *)
(* is the endpoint and the chat it goes to; a response is the dict the     *)
(* call appends.  The digest is a sequence of lines, a line a sequence of  *)
(* tokens.                                                                 *)

MaxFindings == 6

(* _parse_chat_ids on the comma-separated pieces of TELEGRAM_CHAT_IDS *)
_parse_chat_ids(pieces) == SelectSeq(pieces, LAMBDA cid : cid # "")

(* __init__: token or the environment's, chat_ids or the environment's *)
TelegramBot(token, chat_ids, env) ==
    LET t == IF token # "" THEN token ELSE env.token
    IN  [token |-> t,
         chat_ids |-> IF chat_ids # << >> THEN chat_ids
                      ELSE _parse_chat_ids(env.chat_ids),
         enabled |-> t # ""]

Bots ==
    {TelegramBot(token, chat_ids, env) :
        token \in {"", "T"},
        chat_ids \in {<< >>, <<"c1">>, <<"c1", "c2">>},
        env \in [token : {"", "E"}, chat_ids : {<< >>, <<"", "c3">>}]}

(* variant: the sends go on without a token *)
DisabledNever(b) == FALSE

(* if not self.enabled *)
Disabled(b) == ~b.enabled

Outcomes == {"ok", "api error", "request error"}

(* the dict a request ends in: the API's result, or the except branch *)
Response(o) ==
    CASE o = "ok" -> [ok |-> TRUE, error |-> ""]
      [] o = "api error" -> [ok |-> FALSE, error |-> "Bad Request"]
      [] o = "open error" -> [ok |-> FALSE, error |-> "No such file"]
      [] OTHER -> [ok |-> FALSE, error |-> "URLError"]

NoSend == [requests |-> << >>, responses |-> << >>]

(* targets = [chat_id] if chat_id else self.chat_ids *)
Targets(b, chat_id) == IF chat_id # "" THEN << chat_id >> ELSE b.chat_ids

(* the loop of send_message and send_photo: one _make_request per target, *)
(* which issues no request when the bot is not enabled                    *)
RequestEach(b, endpoint, targets, outs) ==
    [requests |-> IF Disabled(b) THEN << >>
                  ELSE [i \in 1..Len(targets) |->
                            [endpoint |-> endpoint, chat_id |-> targets[i]]],
     responses |-> [i \in 1..Len(targets) |->
                        IF Disabled(b) THEN [ok |-> FALSE, error |-> "Bot not enabled"]
                        ELSE Response(outs[i])]]

send_message(b, text, chat_id, outs) ==
    IF Disabled(b) THEN NoSend
    ELSE IF Targets(b, chat_id) = << >> THEN NoSend
    ELSE RequestEach(b, "sendMessage", Targets(b, chat_id), outs)

send_photo(b, photo_url, chat_id, outs) ==
    IF Disabled(b) THEN NoSend
    ELSE RequestEach(b, "sendPhoto", Targets(b, chat_id), outs)

(* send_document: per target the file is opened and the request made; an   *)
(* exception of either is turned into a response                           *)
send_document(b, file_path, chat_id, outs) ==
    IF Disabled(b) THEN NoSend
    ELSE LET targets == Targets(b, chat_id)
             sent == SelectSeq([i \in 1..Len(targets) |-> i],
                               LAMBDA i : outs[i] # "open error")
         IN  [requests |-> [j \in 1..Len(sent) |->
                                [endpoint |-> "sendDocument", chat_id |-> targets[sent[j]]]],
              responses |-> [i \in 1..Len(targets) |-> Response(outs[i])]]

(* f.<name> of an OptimizationFinding, f.get(name, default) of a dict *)
Attr(f, name, default) ==
    IF f.t = "object" THEN f.v[name]
    ELSE IF name \in DOMAIN f.v THEN f.v[name] ELSE default

(* severity_counts[sev] = severity_counts.get(sev, 0) + 1 over the findings *)
RECURSIVE severity_counts(_)
severity_counts(list) ==
    IF list = << >> THEN << >>
    ELSE Increment(severity_counts(SubSeq(list, 1, Len(list) - 1)),
                   Attr(list[Len(list)], "severity", "medium"))

(* the sort key: the index in ['critical', 'high', 'medium', 'low'], else 99 *)
SeverityIndex(sev) ==
    CASE sev = "critical" -> 0
      [] sev = "high" -> 1
      [] sev = "medium" -> 2
      [] sev = "low" -> 3
      [] OTHER -> 99

(* sorted(severity_counts.items(), key=...): ascending and stable *)
SortedCounts(d) ==
    Permute(d, SortPerm([i \in 1..Len(d) |-> 0 - SeverityIndex(d[i].k)], Len(d)))

(* variant: every finding listed *)
TopFindingsAll(list) == list

(* top_findings = findings[:5] if len(findings) > 5 else findings *)
TopFindings(list) == IF Len(list) > 5 THEN SubSeq(list, 1, 5) ELSE list

RECURSIVE TopLines(_, _)
TopLines(top, n) ==
    IF n = 0 THEN << >>
    ELSE TopLines(top, n - 1)
            \o << << Str(n), ". ",
                     SeverityEmoji(Attr(top[n], "severity", "medium")), " *",
                     Attr(top[n], "resource_type", "Unknown"), ": ",
                     Attr(top[n], "resource_id", "unknown"), "*" >>,
                  << "   Save: *$", Money(Attr(top[n], "potential_savings_usd", 0)),
                     "/month*" >> >>

(* the lines send_optimization_report joins into full_message *)
Digest(list, s) ==
    LET total_savings == IF "total_potential_savings_usd" \in DOMAIN s
                         THEN s.total_potential_savings_usd ELSE 0
        total_findings == IF "total_findings" \in DOMAIN s THEN s.total_findings ELSE 0
        counts == SortedCounts(severity_counts(list))
    IN  << << "*Cloud-Zombie Exorcist Report*" >>,
           << "_", analysis_timestamp, "_\n" >>,
           << "*Summary*" >>,
           << "(bullet) Findings: *", Str(total_findings), "*" >>,
           << "(bullet) Potential Savings: *$", Money(total_savings), "/month*" >>,
           << "(bullet) Commission (15%): *$", Money(RoundDiv(total_savings * 15, 100)),
              "/month*\n" >> >>
        \o (IF counts = << >> THEN << >>
            ELSE << << "*By Severity*" >> >>
                    \o [i \in 1..Len(counts) |->
                            << "(bullet) ", SeverityEmoji(counts[i].k), " ",
                               Title(counts[i].k), ": ", Str(counts[i].n) >>])
        \o << << "\n*Top Opportunities*" >> >>
        \o TopLines(TopFindings(list), Len(TopFindings(list)))
        \o (IF Len(list) > 5
            THEN << << "\n_...and ", Str(Len(list) - 5), " more findings_" >> >>
            ELSE << >>)
        \o << << "\n*Use /optimize to execute remediation scripts*" >> >>

(* os.path.exists(report_file) *)
Exists(path) == path = "report.json"

(* the findings handed to the bot: OptimizationFinding objects, of which   *)
(* the digest reads four attributes, and dicts that may lack keys          *)
BotObject(sev, i) ==
    [t |-> "object",
     v |-> [resource_type |-> "EC2", resource_id |-> "i-" \o Str(i),
            potential_savings_usd |-> (20 - i) * Usd + 250, severity |-> sev]]

BotPool ==
    {BotObject(sev, 0) : sev \in {"critical", "high", "medium", "low", "info"}}
        \cup {[t |-> "dict", v |-> << >>],
              [t |-> "dict", v |-> [severity |-> "urgent"]],
              [t |-> "dict", v |-> [resource_type |-> "S3", resource_id |-> "bk-1",
                                    potential_savings_usd |-> 1250,
                                    severity |-> "low"]]}

(* k further findings, at positions from + 1 .. from + k *)
Fill(from, k) ==
    [j \in 1..k |->
        BotObject(<<"low", "critical", "medium", "high">>[((from + j) % 4) + 1],
                  from + j)]

BotLists ==
    SeqsUpTo(BotPool, 2)
        \cup {p \o Fill(Len(p), k) : p \in SeqsUpTo(BotPool, 1), k \in 2..(MaxFindings - 1)}

(* the summaries handed over with a list: get_summary's two shapes *)
BotSummaries(list) ==
    {[total_findings |-> 0],
     [total_findings |-> Len(list),
      total_potential_savings_usd |->
          Round2(SumOf([i \in 1..Len(list) |->
                            [x |-> Attr(list[i], "potential_savings_usd", 0)]], "x"))]}

NoCall ==
    [op |-> "none", text |-> "", chat_id |-> "", file |-> "",
     findings |-> << >>, summary |-> << >>]

BotInit ==
    /\ EngineInit(NoConfig)
    /\ DriverIdle
    /\ CliIdle
    /\ error = ""
    /\ markdown = << >>
    /\ bot \in Bots
    /\ call = NoCall
    /\ requests = << >>
    /\ responses = << >>
    /\ message = << >>
    /\ pc = "bot"

BotDone(c, result) ==
    /\ call' = c
    /\ requests' = result.requests
    /\ responses' = result.responses
    /\ error' = ""
    /\ pc' = "done"
    /\ UNCHANGED <<bot, markdown, engineVars, evalVars, cliVars>>

SendMessage ==
    /\ pc = "bot"
    /\ \E chat_id \in {"", "c9"} :
       \E outs \in [1..Len(Targets(bot, chat_id)) -> Outcomes] :
          /\ BotDone([NoCall EXCEPT !.op = "send_message", !.text = "hello",
                                    !.chat_id = chat_id],
                     send_message(bot, "hello", chat_id, outs))
          /\ message' = message

SendPhoto ==
    /\ pc = "bot"
    /\ \E chat_id \in {"", "c9"} :
       \E outs \in [1..Len(Targets(bot, chat_id)) -> Outcomes] :
          /\ BotDone([NoCall EXCEPT !.op = "send_photo", !.file = "http://p/1.png",
                                    !.chat_id = chat_id],
                     send_photo(bot, "http://p/1.png", chat_id, outs))
          /\ message' = message

(* the outcomes of a document send: the file may fail to open *)
DocumentOutcomes(path) ==
    IF Exists(path) THEN Outcomes \cup {"open error"} ELSE {"open error"}

SendDocument ==
    /\ pc = "bot"
    /\ \E chat_id \in {"", "c9"}, path \in {"missing.json", "report.json"} :
       \E outs \in [1..Len(Targets(bot, chat_id)) -> DocumentOutcomes(path)] :
          /\ BotDone([NoCall EXCEPT !.op = "send_document", !.file = path,
                                    !.chat_id = chat_id],
                     send_document(bot, path, chat_id, outs))
          /\ message' = message

(* send_optimization_report: the digest is built, sent with send_message,  *)
(* and the report file, if given and present, with send_document           *)
SendOptimizationReport ==
    /\ pc = "bot"
    /\ \E list \in BotLists, report_file \in {"", "missing.json", "report.json"} :
       \E s \in BotSummaries(list) :
       \E outs \in [1..Len(bot.chat_ids) -> Outcomes],
          docs \in [1..(IF report_file # "" /\ Exists(report_file)
                        THEN Len(bot.chat_ids) ELSE 0) -> DocumentOutcomes(report_file)] :
          LET first == send_message(bot, "digest", "", outs)
              second == IF report_file # "" /\ Exists(report_file)
                        THEN send_document(bot, report_file, "", docs)
                        ELSE NoSend
          IN  /\ message' = Digest(list, s)
              /\ BotDone([NoCall EXCEPT !.op = "send_optimization_report",
                                        !.file = report_file, !.findings = list,
                                        !.summary = s],
                         [requests |-> first.requests \o second.requests,
                          responses |-> first.responses \o second.responses])

BotNext == SendMessage \/ SendPhoto \/ SendDocument \/ SendOptimizationReport

SpecBot == BotInit /\ [][BotNext]_vars

----------------------------------------------------------------------------
(* Properties of one record's analysis (SpecRecord) *)

(* the defaults the claim gives: 0 for numbers, 'unknown' for identifiers, *)
(* 'gp2', 'Medium' and 'STANDARD' for the type fields, 30 for the period   *)
ClaimedDefaults(k) ==
    CASE k = "ec2" ->
            [id |-> JStr("unknown"), type |-> JStr("unknown"), cpu |-> JNum(0),
             net |-> JNum(0), days |-> JNum(0), cost |-> JNum(0)]
      [] k = "ebs" ->
            [id |-> JStr("unknown"), size |-> JNum(0), type |-> JStr("gp2"),
             days |-> JNum(0), avg_iops |-> JNum(0), iops |-> JNum(0)]
      [] k = "snowflake" ->
            [name |-> JStr("unknown"), size |-> JStr("Medium"), credits |-> JNum(0),
             queries |-> JNum(0), hours |-> JNum(0), period |-> JNum(30)]
      [] OTHER ->
            [name |-> JStr("unknown"), size |-> JNum(0), class |-> JStr("STANDARD"),
             days |-> JNum(0), uploads |-> JNum(0), upsize |-> JNum(0)]

(* the record with each of those fields it lacks given its default *)
WithDefaults(k, style, rec) ==
    LET names == Names(k, style)
        missing == {f \in DOMAIN ClaimedDefaults(k) : names[f] \notin DOMAIN rec}
    IN  [key \in DOMAIN rec \cup {names[f] : f \in missing} |->
            IF key \in DOMAIN rec THEN rec[key]
            ELSE ClaimedDefaults(k)[CHOOSE f \in missing : names[f] = key]]

(* C14: a record that lacks any subset of its fields, the empty record     *)
(* included, is evaluated without raising, and its findings are those of   *)
(* the record in which each missing field has its default                  *)
C14_MissingFieldsDefault ==
    calls = 1
        => /\ outcome = "returned"
           /\ Current
                = Permute(Evaluate(kind, << WithDefaults(kind, styles[1], logs[1]) >>),
                          SortOrder(Evaluate(kind,
                                << WithDefaults(kind, styles[1], logs[1]) >>)))

C14_Witness ==
    /\ calls = 1
    /\ kind = "snowflake"
    /\ DOMAIN logs[1] = {}
    /\ outcome = "returned"
    /\ Len(Current) = 2
    /\ Current[1].resource_id = "unknown"
    /\ Current[1].metadata.warehouse_size = JStr("Medium")

(* the denominators the evaluator of the record divides by *)
RecordDivisors ==
    CASE kind = "ebs" -> EbsDivisors(logs[1])
      [] kind = "snowflake" -> WhDivisors(logs[1])
      [] OTHER -> {}

(* C15: with numeric values (nothing active, a period of 0 or less, no     *)
(* provisioned IOPS, an unknown size, a total cost of 0) no evaluator and  *)
(* no get_summary call divides by 0 or raises                              *)
C15_NoDivisionByZero ==
    /\ calls = 1 => (0 \notin RecordDivisors /\ outcome = "returned")
    /\ 0 \notin SummaryDivisors(Current)
    /\ error = ""
    /\ divided => "savings_percentage" \in DOMAIN summary

C15_Witness ==
    /\ kind = "snowflake"
    /\ calls = 1
    /\ outcome = "returned"
    /\ Get2(logs[1], "hours_active", "active_hours", JNull) = JNum(0)
    /\ Get(logs[1], "analysis_period_days", JNull) \in {JNum(0), JNum(-1)}
    /\ Get2(logs[1], "size", "warehouse_size", JNull) = JStr("Huge")
    /\ Len(Current) = 1
    /\ divided
    /\ summary.total_current_cost_usd = 0
    /\ summary.savings_percentage = 0

Distance(a, b) == IF a < b THEN b - a ELSE a - b

RECURSIVE SumCounts(_)
SumCounts(d) == IF d = << >> THEN 0 ELSE Head(d).n + SumCounts(Tail(d))

(* the entries of a count dict agree with the collection: one key per      *)
(* value of the field that occurs, with the number of its occurrences      *)
CountsAgree(d, list, field) ==
    /\ {d[i].k : i \in 1..Len(d)} = {list[i][field] : i \in 1..Len(list)}
    /\ \A i \in 1..Len(d) :
          d[i].n = Cardinality({j \in 1..Len(list) : list[j][field] = d[i].k})
    /\ SumCounts(d) = Len(list)

(* C18: for a non-empty collection the summary counts the findings, gives  *)
(* the two totals as the sums rounded to cents, the percentage as          *)
(* total_savings / max(total_current_cost, 1) * 100 rounded to one         *)
(* decimal, and per-severity and per-type counts that each add up to the   *)
(* number of findings                                                      *)
C18_SummaryConsistent ==
    (summary # << >> /\ Current # << >>)
        => LET savings == SumOf(Current, "potential_savings_usd")
               cost == SumOf(Current, "current_cost_usd")
               base == IF cost > Usd THEN cost ELSE Usd
               cent == Usd \div 100
           IN  /\ summary.total_findings = Len(Current)
               /\ summary.total_potential_savings_usd % cent = 0
               /\ 2 * Distance(summary.total_potential_savings_usd, savings) <= cent
               /\ summary.total_current_cost_usd % cent = 0
               /\ 2 * Distance(summary.total_current_cost_usd, cost) <= cent
               /\ 2 * Distance(summary.savings_percentage * base, savings * 1000)
                     <= base
               /\ CountsAgree(summary.by_severity, Current, "severity")
               /\ CountsAgree(summary.by_resource_type, Current, "resource_type")

C18_Witness ==
    /\ summary # << >>
    /\ Len(Current) >= 2
    /\ summary.total_findings = Len(Current)
    /\ Len(summary.by_severity) >= 2
    /\ SumOf(Current, "potential_savings_usd") % (Usd \div 100) # 0
    /\ summary.total_potential_savings_usd # SumOf(Current, "potential_savings_usd")
    /\ (SumOf(Current, "potential_savings_usd") * 1000)
            % Max(SumOf(Current, "current_cost_usd"), Usd) # 0
    /\ summary.savings_percentage > 0

(* the lines of the 'By Severity' block of the text *)
SeverityBlock(md) ==
    LET from == CHOOSE i \in 1..Len(md) : md[i] = <<"### By Severity\n">>
        to == CHOOSE i \in 1..Len(md) : md[i] = <<"\n## Detailed Findings\n">>
    IN  IF \E i \in 1..Len(md) : md[i] = <<"### By Severity\n">>
        THEN SubSeq(md, from + 1, to - 1)
        ELSE << >>

(* the section headings of the text *)
SectionHeads(md) == SelectSeq(md, LAMBDA line : line[1] = "### " /\ Len(line) = 9)

Priority(title) ==
    CASE title = "Critical" -> 1
      [] title = "High" -> 2
      [] title = "Medium" -> 3
      [] title = "Low" -> 4
      [] OTHER -> 5

(* the second half of C19: one section per finding, in the current order *)
C19_SectionsInOrder ==
    markdown # << >>
        => /\ Len(SectionHeads(markdown)) = Len(Current)
           /\ \A i \in 1..Len(Current) :
                /\ SectionHeads(markdown)[i][2] = Str(i)
                /\ SectionHeads(markdown)[i][6] = Current[i].resource_type
                /\ SectionHeads(markdown)[i][8] = Current[i].resource_id

(* C19: in the text to_markdown returns, the per-severity breakdown lists  *)
(* the severities present in the order critical, high, medium, low, and    *)
(* the sections that follow are one per finding in the current order       *)
C19_MarkdownOrder ==
    markdown # << >>
        => /\ {SeverityBlock(markdown)[i][4] : i \in 1..Len(SeverityBlock(markdown))}
                = {Title(Current[i].severity) : i \in 1..Len(Current)}
           /\ \A i, j \in 1..Len(SeverityBlock(markdown)) :
                i < j => Priority(SeverityBlock(markdown)[i][4])
                            < Priority(SeverityBlock(markdown)[j][4])
           /\ C19_SectionsInOrder

----------------------------------------------------------------------------
(* Properties of the bot (SpecBot) *)

(* C17: with no bot token the bot is not enabled, and send_message,        *)
(* send_photo, send_document and send_optimization_report issue no         *)
(* request, raise no error and return an empty list                        *)
C17_DisabledChannelSilent ==
    bot.token = ""
        => /\ ~bot.enabled
           /\ requests = << >>
           /\ responses = << >>
           /\ error = ""

C17_Witness ==
    /\ pc = "done"
    /\ bot.token = ""
    /\ bot.chat_ids = <<"c1", "c2">>
    /\ call.op = "send_optimization_report"
    /\ Len(call.findings) > 5
    /\ call.file = "report.json"
    /\ message # << >>
    /\ requests = << >>
    /\ responses = << >>

(* the numbered lines, the callout lines and the severity lines of a digest *)
NumberedLines(m) == SelectSeq(m, LAMBDA line : Len(line) = 8 /\ line[2] = ". ")

CalloutLines(m) == SelectSeq(m, LAMBDA line : line[1] = "\n_...and ")

BreakdownLines(m) == SelectSeq(m, LAMBDA line : Len(line) = 6 /\ line[1] = "(bullet) ")

(* C20: the digest of n findings lists the first min(5, n) of them, in the *)
(* order given and numbered from 1; it has the '...and n-5 more findings'  *)
(* line exactly when n > 5; its severity breakdown has one line per        *)
(* severity present, critical, high, medium, low in this order and any     *)
(* other severity after them                                               *)
C20_DigestTopFive ==
    call.op = "send_optimization_report"
        => LET list == call.findings
               n == Len(list)
               numbered == NumberedLines(message)
               callout == CalloutLines(message)
               breakdown == BreakdownLines(message)
           IN  /\ Len(numbered) = (IF n < 5 THEN n ELSE 5)
               /\ \A i \in 1..Len(numbered) :
                    /\ numbered[i][1] = Str(i)
                    /\ numbered[i][5] = Attr(list[i], "resource_type", "Unknown")
                    /\ numbered[i][7] = Attr(list[i], "resource_id", "unknown")
               /\ Len(callout) = (IF n > 5 THEN 1 ELSE 0)
               /\ n > 5 => callout[1] = << "\n_...and ", Str(n - 5), " more findings_" >>
               /\ {breakdown[i][4] : i \in 1..Len(breakdown)}
                    = {Title(Attr(list[i], "severity", "medium")) : i \in 1..n}
               /\ \A i, j \in 1..Len(breakdown) :
                    i < j => /\ breakdown[i][4] # breakdown[j][4]
                             /\ Priority(breakdown[i][4]) <= Priority(breakdown[j][4])

C20_Witness ==
    /\ call.op = "send_optimization_report"
    /\ Len(call.findings) = 6
    /\ Attr(call.findings[1], "severity", "medium") = "info"
    /\ Len(NumberedLines(message)) = 5
    /\ Len(CalloutLines(message)) = 1
    /\ Len(BreakdownLines(message)) = 5
    /\ BreakdownLines(message)[1][4] = "Critical"
    /\ BreakdownLines(message)[5][4] = "Info"

----------------------------------------------------------------------------
(* Records from a CSV file.  csv.DictReader gives every cell as text: a    *)
(* number of the sheet arrives as the text of that number.                 *)

CellText(v) == IF v.t = "num" THEN JNumStr(v.n, Str(v.n)) ELSE v

(* load_csv_logs: one dict per row, header names as keys, texts as values *)
load_csv_logs(rows) ==
    [i \in 1..Len(rows) |-> [key \in DOMAIN rows[i] |-> CellText(rows[i][key])]]

(* the namings the evaluator of a kind reads *)
AcceptedStyles(k) == {Accepted(k)[1], Accepted(k)[2]}

(* the sheets: one row of values for the fields of a kind; a cell holds a  *)
(* number or a text, so a volume row has no Attachments list               *)
SheetValues(k) == IF k = "ebs" THEN EbsBase ELSE Values(k)

CsvInit ==
    /\ EngineInit(NoConfig)
    /\ kind \in Kinds
    /\ \E v \in SheetValues(kind), style \in AcceptedStyles(kind) :
        /\ styles = <<style, style>>
        /\ logs = << Rename(Names(kind, style), v) >>
        /\ twin = load_csv_logs(<< Rename(Names(kind, style), v) >>)
    /\ out = << >>
    /\ outTwin = << >>
    /\ CliIdle
    /\ ExtIdle
    /\ pc = "csv"

(* the evaluator of the kind on the records of the document and on the     *)
(* rows of the file; an exception of the latter is kept in `error`         *)
CsvEvaluate ==
    /\ pc = "csv"
    /\ out' = Evaluate(kind, logs)
    /\ IF EvaluatorRaises(kind, twin)
       THEN outTwin' = << >> /\ error' = "TypeError"
       ELSE outTwin' = Evaluate(kind, twin) /\ error' = ""
    /\ pc' = "csvdone"
    /\ UNCHANGED <<markdown, botVars, engineVars, kind, logs, twin, styles, cliVars>>

CsvNext == CsvEvaluate

SpecCsv == CsvInit /\ [][CsvNext]_vars

----------------------------------------------------------------------------
(* Properties of CSV records (SpecCsv) *)

(* C27: the rows of a CSV file, whose values are all text, get the same    *)
(* findings as the same records with numeric values from a JSON document,  *)
(* and are evaluated without error; so a warehouse row with auto-suspend   *)
(* '0' gets the no-auto-suspend finding and a row with an                  *)
(* avg_credit_usage_per_hour column is evaluated                           *)
C27_TabularEqualsStructured ==
    pc = "csvdone" => (error = "" /\ outTwin = out)

----------------------------------------------------------------------------
(* AWSDataExporter: the records written from the inventory of the account, *)
(* and main's analysis of the exported document.  The inventory is what    *)
(* the AWS API returns: instances (state, type, the CloudWatch averages),  *)
(* volumes (state, size, attachments), buckets (size, age, uploads).       *)

MaxExported == 1

(* _estimate_ec2_cost, in 1/1000 $ per hour, for the types the model draws *)
_estimate_ec2_cost(instance_type) ==
    CASE instance_type = "m5.xlarge" -> 192
      [] instance_type = "c5.2xlarge" -> 340
      [] OTHER -> 100

RECURSIVE SelectSeq2(_, _)
SelectSeq2(seq, keep) ==
    IF seq = << >> THEN << >>
    ELSE (IF Head(seq).state \in keep THEN << Head(seq) >> ELSE << >>)
            \o SelectSeq2(Tail(seq), keep)

(* get_ec2_instances: terminated instances are skipped; a datetime has no  *)
(* attribute 'days', so days_running is 30                                 *)
get_ec2_instances(instances) ==
    LET live == SelectSeq2(instances, {"running", "stopped"})
    IN  [i \in 1..Len(live) |->
            [InstanceId |-> JStr(live[i].id),
             InstanceType |-> JStr(live[i].type),
             AverageCPU |-> JNum(live[i].cpu),
             AverageNetworkIn |-> JNum(live[i].net),
             AverageNetworkOut |-> JNum(live[i].net),
             DaysRunning |-> JNum(30),
             HourlyCost |-> JNum(_estimate_ec2_cost(live[i].type)),
             State |-> JStr(live[i].state)]]

(* get_ebs_volumes *)
get_ebs_volumes(volumes) ==
    [i \in 1..Len(volumes) |->
        [VolumeId |-> JStr(volumes[i].id),
         State |-> JStr(volumes[i].state),
         Size |-> JNum(volumes[i].size),
         VolumeType |-> JStr("gp2"),
         IOPS |-> JNum(volumes[i].iops),
         AverageIOPS |-> JNum(IF volumes[i].attachments > 0 THEN volumes[i].avg_iops ELSE 0),
         DaysUnattached |->
            JNum(IF volumes[i].attachments = 0 /\ volumes[i].state = "available"
                 THEN 30 ELSE 0),
         Attachments |-> JNum(volumes[i].attachments)]]

(* _get_incomplete_uploads: the sum of the start times of the uploads, as  *)
(* seconds since 1970, over 100000000 (about 18 for an upload of these     *)
(* years), at most 100                                                     *)
IncompleteSize(uploads) == IF uploads * 18 < 100 THEN uploads * 18 ELSE 100

(* get_s3_buckets *)
get_s3_buckets(buckets) ==
    [i \in 1..Len(buckets) |->
        [BucketName |-> JStr(buckets[i].name),
         SizeGB |-> JNum(buckets[i].size),
         StorageClass |-> JStr("STANDARD"),
         DaysSinceLastAccess |-> JNum(IF buckets[i].age < 365 THEN buckets[i].age ELSE 365),
         IncompleteUploads |-> JNum(buckets[i].uploads),
         IncompleteUploadSizeGB |-> JNum(IncompleteSize(buckets[i].uploads))]]

(* export_all: the document written to the file and returned *)
export_all(inventory) ==
    [ec2_instances |-> get_ec2_instances(inventory.instances),
     ebs_volumes |-> get_ebs_volumes(inventory.volumes),
     s3_buckets |-> get_s3_buckets(inventory.buckets),
     export_timestamp |-> JStr("2024-01-15T10:30:00"),
     region |-> JStr("us-east-1")]

InstancePool ==
    [id : {"i-1"}, type : {"m5.xlarge", "m5a.large"}, state : {"running", "terminated"},
     cpu : {2, 50}, net : {500}]

VolumePool ==
    [id : {"vol-1"}, state : {"available", "in-use"}, size : {100},
     iops : {3000}, avg_iops : {100}, attachments : {0, 1}]

BucketPool ==
    [name : {"bk-1"}, size : {200}, age : {120, 400}, uploads : {0, 3}]

Inventories ==
    [instances : SeqsUpTo(InstancePool, MaxExported),
     volumes : SeqsUpTo(VolumePool, MaxExported),
     buckets : SeqsUpTo(BucketPool, MaxExported)]

(* main: args.analyze is the --analyze flag *)
ExportInit ==
    /\ EngineInit(NoConfig)
    /\ kind = "none"
    /\ logs \in Inventories   \* the inventory of the account
    /\ twin = << >>           \* the exported document
    /\ styles = << >>
    /\ out = << >>
    /\ outTwin = << >>
    /\ files = << >>
    /\ options \in [analyze : BOOLEAN]
    /\ idx = 0
    /\ all_findings = << >>
    /\ attempted = << >>
    /\ reports = {}
    /\ notification = "none"
    /\ returned = << >>
    /\ ExtIdle
    /\ pc = "export"

(* data = exporter.export_all(args.output) *)
ExportAll ==
    /\ pc = "export"
    /\ twin' = export_all(logs)
    /\ pc' = "exported"
    /\ UNCHANGED <<extVars, engineVars, kind, logs, styles, out, outTwin, cliVars>>

(* an AWS call raises (no credentials, no access): main prints the error *)
ExportFails ==
    /\ pc = "export"
    /\ error' = "Error"
    /\ pc' = "exportdone"
    /\ UNCHANGED <<markdown, botVars, engineVars, evalVars, cliVars>>

(* if args.analyze: findings = analyzer.analyze(data); the count and the   *)
(* sum of the savings are printed                                          *)
ExportAnalyze ==
    /\ pc = "exported"
    /\ options.analyze
    /\ AnalyzeCall(twin)
    /\ out' = heap'[findings']
    /\ returned' = [findings |-> Len(out'),
                    savings |-> SumOf(out', "potential_savings_usd")]
    /\ pc' = "exportdone"
    /\ UNCHANGED <<extVars, kind, logs, twin, styles, outTwin, files, options, idx,
                   all_findings, attempted, reports, notification>>

ExportOnly ==
    /\ pc = "exported"
    /\ ~options.analyze
    /\ pc' = "exportdone"
    /\ UNCHANGED <<extVars, engineVars, evalVars, cliVars>>

ExportNext == ExportAll \/ ExportFails \/ ExportAnalyze \/ ExportOnly

SpecExport == ExportInit /\ [][ExportNext]_vars

----------------------------------------------------------------------------
(* Properties of the exporter's analysis (SpecExport) *)

(* the findings of the evaluators on the exported records *)
ExportedFindings ==
    Evaluate("ec2", twin.ec2_instances)
        \o Evaluate("ebs", twin.ebs_volumes)
        \o Evaluate("s3", twin.s3_buckets)

(* C28: on the 'run analysis after export' path every exported instance,   *)
(* volume and bucket record is evaluated: the reported count and savings   *)
(* are those of the findings of the exported records, so an exported       *)
(* record that satisfies a rule yields a finding                           *)
C28_ExportedRecordsEvaluated ==
    (pc = "exportdone" /\ options.analyze /\ error = "")
        => /\ returned.findings = Len(ExportedFindings)
           /\ returned.savings = SumOf(ExportedFindings, "potential_savings_usd")

----------------------------------------------------------------------------
(* CloudZombieExorcist.optimize.  The findings file is its parsed content: *)
(* whether json.load returns, whether the document is an object, whether   *)
(* it has 'findings' and what that is, and the items of the list.  An item *)
(* is an object (a mapping from keys to values) or another JSON value.     *)

MaxActions == 3

IsObject(item) == "t" \notin DOMAIN item

FindingItems ==
    {[resource_type |-> JStr("EC2"), resource_id |-> JStr("i-1"),
      recommendation |-> JStr("Terminate or downsize m5.xlarge instance"),
      severity |-> JStr("high")],
     [resource_type |-> JStr("EBS"), resource_id |-> JStr("vol-1"),
      recommendation |-> JStr("Delete unattached 100GB gp2 volume"),
      severity |-> JStr("medium")],
     [resource_id |-> JStr("bk-1")],
     JStr("note")}

FindingsFiles ==
    {[parses |-> FALSE, isdict |-> FALSE, findings |-> "absent", items |-> << >>],
     [parses |-> TRUE, isdict |-> FALSE, findings |-> "absent", items |-> << >>],
     [parses |-> TRUE, isdict |-> TRUE, findings |-> "absent", items |-> << >>],
     [parses |-> TRUE, isdict |-> TRUE, findings |-> "null", items |-> << >>]}
        \cup {[parses |-> TRUE, isdict |-> TRUE, findings |-> "list", items |-> l] :
                l \in SeqsUpTo(FindingItems, MaxActions)}

(* variant: only the actions that were executed are listed *)
OptimizeOneExecutedOnly(results, finding, execute) ==
    LET action_plan == [resource_type |-> Get(finding, "resource_type", JNull),
                        resource_id |-> Get(finding, "resource_id", JNull),
                        recommendation |-> Get(finding, "recommendation", JNull),
                        executed |-> execute,
                        error |-> JNull]
    IN  IF execute
        THEN [results EXCEPT !.executed = @ + 1, !.actions = Append(@, action_plan)]
        ELSE [results EXCEPT !.skipped = @ + 1]

(* the body of the loop for one finding that is an object: nothing in the  *)
(* try block raises, so the except branch is not taken                     *)
OptimizeOne(results, finding, execute) ==
    LET action_plan == [resource_type |-> Get(finding, "resource_type", JNull),
                        resource_id |-> Get(finding, "resource_id", JNull),
                        recommendation |-> Get(finding, "recommendation", JNull),
                        executed |-> execute,
                        error |-> JNull]
    IN  IF execute
        THEN [results EXCEPT !.executed = @ + 1, !.actions = Append(@, action_plan)]
        ELSE [results EXCEPT !.skipped = @ + 1, !.actions = Append(@, action_plan)]

(* the text of the notification *)
OptimizeText(results, execute) ==
    IF execute
    THEN << <<"Optimization Complete">>,
            <<"Executed: ", Str(results.executed)>>,
            <<"Skipped: ", Str(results.skipped)>>,
            <<"Errors: ", Str(results.errors)>> >>
    ELSE << <<"Optimization Dry-Run Complete">>,
            <<"Total findings: ", Str(results.total)>>,
            <<"Ready to execute when DRY_RUN=false">> >>

OptimizeInit ==
    /\ EngineInit(NoConfig)
    /\ kind = "none"
    /\ logs \in FindingsFiles   \* the findings file
    /\ twin = << >>
    /\ styles = << >>
    /\ out = << >>
    /\ outTwin = << >>
    /\ files = << >>
    /\ options \in [execute : BOOLEAN]
    /\ idx = 0
    /\ all_findings = << >>
    /\ attempted = << >>
    /\ reports = {}
    /\ notification = "none"
    /\ returned = << >>
    /\ error = ""
    /\ markdown = << >>
    /\ bot \in {TelegramBot("", <<"c1">>, [token |-> "", chat_ids |-> << >>]),
                TelegramBot("T", <<"c1">>, [token |-> "", chat_ids |-> << >>])}
    /\ call = NoCall
    /\ requests = << >>
    /\ responses = << >>
    /\ message = << >>
    /\ pc = "optimize"

(* json.load, data.get('findings', []) and len(findings): an exception of  *)
(* one of them leaves the call                                             *)
OptimizeOpen ==
    /\ pc = "optimize"
    /\ IF ~logs.parses
       THEN error' = "JSONDecodeError" /\ pc' = "optdone" /\ UNCHANGED <<returned, idx>>
       ELSE IF ~logs.isdict
       THEN error' = "AttributeError" /\ pc' = "optdone" /\ UNCHANGED <<returned, idx>>
       ELSE IF logs.findings = "null"
       THEN error' = "TypeError" /\ pc' = "optdone" /\ UNCHANGED <<returned, idx>>
       ELSE /\ returned' = [total |-> Len(logs.items), executed |-> 0, skipped |-> 0,
                            errors |-> 0, actions |-> << >>]
            /\ idx' = 1
            /\ pc' = "optloop"
            /\ UNCHANGED error
    /\ UNCHANGED <<markdown, botVars, engineVars, evalVars, files, options,
                   all_findings, attempted, reports, notification>>

(* one turn of the loop; finding.get of an item that is not an object      *)
(* raises outside the try block and leaves the call                        *)
OptimizeStep ==
    /\ pc = "optloop"
    /\ idx <= Len(logs.items)
    /\ IF IsObject(logs.items[idx])
       THEN /\ returned' = OptimizeOne(returned, logs.items[idx], options.execute)
            /\ idx' = idx + 1
            /\ UNCHANGED <<error, pc>>
       ELSE /\ error' = "AttributeError"
            /\ returned' = << >>
            /\ pc' = "optdone"
            /\ UNCHANGED idx
    /\ UNCHANGED <<markdown, botVars, engineVars, evalVars, files, options,
                   all_findings, attempted, reports, notification>>

(* the notification, if the bot is enabled, and return results *)
OptimizeReturn ==
    /\ pc = "optloop"
    /\ idx > Len(logs.items)
    /\ IF bot.enabled
       THEN \E outs \in [1..Len(Targets(bot, "")) -> Outcomes] :
                LET sent == send_message(bot, OptimizeText(returned, options.execute),
                                         "", outs)
                IN  /\ requests' = sent.requests
                    /\ responses' = sent.responses
                    /\ message' = OptimizeText(returned, options.execute)
       ELSE UNCHANGED <<requests, responses, message>>
    /\ pc' = "optdone"
    /\ UNCHANGED <<error, markdown, bot, call, engineVars, evalVars, cliVars>>

OptimizeNext == OptimizeOpen \/ OptimizeStep \/ OptimizeReturn

SpecOptimize == OptimizeInit /\ [][OptimizeNext]_vars

----------------------------------------------------------------------------
(* Properties of optimize (SpecOptimize) *)

(* C30: the results optimize returns have total equal to the number of     *)
(* findings read from the file, one entry of actions per finding in file   *)
(* order, and executed + skipped + errors = total; in a dry run executed   *)
(* is 0, skipped is total and no entry of actions is marked executed       *)
C30_OptimizeResults ==
    (pc = "optdone" /\ error = "")
        => /\ returned.total = Len(logs.items)
           /\ Len(returned.actions) = Len(logs.items)
           /\ \A i \in 1..Len(logs.items) :
                /\ returned.actions[i].resource_id = Get(logs.items[i], "resource_id", JNull)
                /\ returned.actions[i].resource_type
                        = Get(logs.items[i], "resource_type", JNull)
                /\ returned.actions[i].recommendation
                        = Get(logs.items[i], "recommendation", JNull)
           /\ returned.executed + returned.skipped + returned.errors = returned.total
           /\ ~options.execute
                => /\ returned.executed = 0
                   /\ returned.skipped = returned.total
                   /\ \A i \in 1..Len(returned.actions) : ~returned.actions[i].executed

C30_Witness ==
    /\ pc = "optdone"
    /\ error = ""
    /\ ~options.execute
    /\ returned.total = 3
    /\ returned.skipped = 3
    /\ Len(returned.actions) = 3
    /\ returned.actions[1].resource_id = JStr("vol-1")
    /\ returned.actions[2].resource_id = JStr("i-1")
    /\ returned.actions[3].resource_type = JNull
    /\ message[2] = <<"Total findings: ", "3">>

====
